---- MODULE Spec2Model ----
(***************************************************************************)
(* Verification model of the payroll-audit pipeline (auditoria):           *)
(*   - the Excel mapping engine and the single-period / batch writers,     *)
(*   - the consolidators V1 and V2,                                        *)
(*   - the per-source normalizer,                                          *)
(*   - the folder orchestrators A and B,                                   *)
(*   - the HTTP endpoint POST /process and process_period,                 *)
(*   - the parsers' parse(), normalize_number and the Borrador indexer,    *)
(*   - the order of the period writes, the per-period Excel command line,  *)
(*     the Asiento metadata, resolve_analisis_value on its own, two        *)
(*     overlapping calls of process_period, and Orchestrator B together    *)
(*     with the Excel stage it launches.                                   *)
(* Each subsystem has its own specification over the shared variables; a   *)
(* specification keeps the other subsystems' variables at their idle       *)
(* values.                                                                 *)
(***************************************************************************)
EXTENDS Integers, Sequences, FiniteSets, TLC

VARIABLES
    sys,        \* which subsystem this behaviour exercises
    \* ---- Excel writer ----
    tpl,        \* the template workbook (read-only file)
    files,      \* consolidated_YYYY-MM.json files: period index -> document
    disk,       \* the destination workbook file, or NoFile
    wb,         \* the workbook object open in memory, or NoFile
    xpc,        \* "idle" | "writing"
    xmode,      \* which entry point opened the workbook
    queue,      \* sorted period files still to be written by the run
    wlog,       \* per-period write log of the run (write_log)
    loaded,     \* periods saved into disk since the template was copied
    prev,       \* workbook as it was before the last period write
    lastPer,    \* period index of the last period write, 0 if none
    lastW,      \* cells assigned and counts returned by the last write
    xerr,       \* outcome of the last run: "none" | "ok" | "error"
    runSet,     \* the periods handed to the run in progress
    created,    \* entry point that copied the template to disk, or "none"
    nsaves,     \* saves into disk since the template was copied: 0, 1, 2 = many
    coreOnly,   \* every save into disk since the template was copied was build_year's
    \* ---- consolidator ----
    csources,   \* list of CanonicalSourceModel given to the constructor
    cres,       \* result of consolidate(), or NoRes
    \* ---- normalizer ----
    nitems,     \* the IndexedSource given to normalize()
    ndict,      \* DictionaryModel.concepts (ordered)
    nres,       \* result of normalize(), or NoRes
    \* ---- orchestrator A ----
    bundles,    \* the PeriodBundles of the run, in insertion order
    opc,        \* position inside run()
    ocur,       \* index of the bundle the loop of run() is at
    odone,      \* periodos whose loop iteration has finished
    outdir,     \* files present in the output directory
    tmpdirs,    \* per-period scratch directories present under temp_inputs
    stages,     \* log of <<periodo, pipeline stage>> in execution order
    \* ---- HTTP API, process_period, parsers, number parsing, orchestrator B ----
    api,        \* the POST /process server: requests handled, temp dirs, responses
    pp,         \* one call of process_period: arguments, file system, outcome
    pr,         \* one call of a parser's parse(): the PDF, the steps run, the outcome
    nn,         \* one call of normalize_number: the raw text and the result
    orchb,      \* one run of Orchestrator B: output and archive folders, position
    bdoc,       \* the Borrador parser JSON handed to the indexer
    \* ---- period write order, Excel CLI, Asiento metadata, concurrent calls ----
    ord,        \* one batch of two period files written in both orders
    cli,        \* one run of run_batch_excel.py: target, fallback, position
    am,         \* one call of AsientoParser._extract_metadata: text, filename, result
    cc,         \* two overlapping calls of process_period on one output directory
    obx,        \* Orchestrator B together with the Excel stage it launches
    agr         \* one call of ExcelMapper.resolve_analisis_value

xvars == <<tpl, files, disk, wb, xpc, xmode, queue, wlog, loaded, prev, lastPer, lastW,
          xerr, runSet, created, nsaves, coreOnly>>
cvars == <<csources, cres>>
nvars == <<nitems, ndict, nres>>
ovars == <<bundles, opc, ocur, odone, outdir, tmpdirs, stages>>
evars == <<api, pp, pr, nn, orchb, bdoc>>
fvars == <<ord, cli, am, cc, obx, agr>>
vars == <<sys, xvars, cvars, nvars, ovars, evars, fvars>>

(***************************************************************************)
(* Values: Python / spreadsheet scalars.  One record shape for all so that *)
(* any two values can be compared.                                         *)
(***************************************************************************)
None == [t |-> "none", n |-> 0, s |-> ""]
Num(k) == [t |-> "num", n |-> k, s |-> ""]
Str(x) == [t |-> "str", n |-> 0, s |-> x]
Formula(x) == [t |-> "f", n |-> 0, s |-> x]

NoFile == [nofile |-> TRUE]
NoRes == [nores |-> TRUE]

\* str(value) of a navigated JSON value
PyStr(v) ==
    IF v.t = "num" THEN ToString(v.n) ELSE v.s

\* what a cell holds after `cell.value = v`: a string starting with "=" is
\* stored with data_type "f"
IsFormulaText(x) == x \in {"=S"}

CellAssign(v) ==
    IF v.t = "str" /\ IsFormulaText(v.s) THEN Formula(v.s) ELSE v

\* cell.data_type == "f"
IsFormulaCell(c) == c.t = "f"

\* cell.value not in (None, "", 0)
HoldsData(c) ==
    ~ (c.t = "none" \/ (c.t = "str" /\ c.s = "") \/ (c.t = "num" /\ c.n = 0))

\* isinstance(value, (int, float)) and value == 0
IsZero(v) == v.t = "num" /\ v.n = 0

(***************************************************************************)
(* Bounds and layout                                                       *)
(***************************************************************************)
NumMonths == 2
Months == 1..NumMonths
Years == {2025}
\* a period "YYYY-MM" is kept as the integer YYYY*100 + MM; file names
\* consolidated_YYYY-MM.json sort in the order of these integers
Periods == {y * 100 + m : y \in Years, m \in Months}
YearOf(p) == p \div 100
MonthOf(p) == p % 100

FIRST_DATA_ROW == 8
LAST_DATA_ROW == 38
BASE_COL_931 == 2
BLOCK_WIDTH == 8
ANCHOR_SHIFT == 3
MIN_MONTH_COL == 4
MAX_MONTH_COL == 15

DataRows == FIRST_DATA_ROW..LAST_DATA_ROW
\* month columns of 'Analisis General' that the modelled months can reach
AGCols == {m + ANCHOR_SHIFT : m \in Months}

(***************************************************************************)
(* Text: a label is a sequence of characters, so that normalize() and the  *)
(* substring tests of the mapper are computed, not assumed.                *)
(***************************************************************************)
LowerChar(c) ==
    CASE c = "F" -> "f"
      [] c = "A" -> "a"
      [] c = "C" -> "c"
      [] c = "O" -> "o"
      [] c = "T" -> "t"
      [] c = "R" -> "r"
      [] c = "E" -> "e"
      [] c = "M" -> "m"
      [] c = "G" -> "g"
      [] c = "X" -> "x"
      [] OTHER -> c

\* NFD decomposition followed by dropping the combining marks
UnaccentChar(c) ==
    CASE c = "á" -> "a"
      [] c = "ó" -> "o"
      [] OTHER -> c

RECURSIVE LStrip(_)
LStrip(s) == IF s # <<>> /\ Head(s) = " " THEN LStrip(Tail(s)) ELSE s

RECURSIVE RStrip(_)
RStrip(s) ==
    IF s # <<>> /\ s[Len(s)] = " " THEN RStrip(SubSeq(s, 1, Len(s) - 1)) ELSE s

Strip(s) == RStrip(LStrip(s))

\* excel_mapper.normalize
normalize(text) ==
    LET low == [i \in 1..Len(text) |-> LowerChar(text[i])]
        st == Strip(low)
    IN  [i \in 1..Len(st) |-> UnaccentChar(st[i])]

\* Python `pat in s` on strings
Contains(pat, s) ==
    \E i \in 0..(Len(s) - Len(pat)) : SubSeq(s, i + 1, i + Len(pat)) = pat

(***************************************************************************)
(* Mapping configuration (the three YAML tables)                           *)
(***************************************************************************)
PathTotal == "sources_raw.f931.extracted.campos_principales.total.value"

Mapping931 ==
    << [row |-> 5, col_offset |-> 0, path |-> PathTotal, type |-> "numeric"],
       [row |-> 5, col_offset |-> 3, path |-> PathTotal, type |-> "rectificativa"],
       [row |-> 5, col_offset |-> 7, path |-> PathTotal, type |-> "text"] >>

MappingAnalisis ==
    << [row |-> 8, path |-> PathTotal, type |-> "numeric"] >>

MappingDynamic ==
    << [key |-> <<"F", "A", "C">>, match_any |-> << <<"f", "a", "c">>, <<"c", "y">> >>],
       [key |-> <<"O", "T">>, match_any |-> << >>] >>

Rows931 == {Mapping931[i].row : i \in 1..Len(Mapping931)}
Cols931 == BASE_COL_931..(BASE_COL_931 + NumMonths * BLOCK_WIDTH - 1)

(***************************************************************************)
(* ExcelMapper                                                             *)
(***************************************************************************)
\* _get_nested over the consolidated document
GetNested(doc, path) ==
    IF path \in DOMAIN doc.fields THEN doc.fields[path] ELSE None

\* _resolve_entry
ResolveEntry(doc, entry) ==
    LET value == GetNested(doc, entry.path)
    IN  IF value.t = "none" THEN None
        ELSE IF entry.type = "text" THEN Str(PyStr(value))
        ELSE IF entry.type = "rectificativa"
             THEN Str("Orig. (0) - Rect. (1/9): " \o PyStr(value))
        ELSE IF value.t = "num" THEN Num(value.n)
        ELSE None

\* get_931_values: the list of {row, col, value} with a resolved value
RECURSIVE Get931From(_, _, _)
Get931From(doc, month, i) ==
    IF i > Len(Mapping931) THEN <<>>
    ELSE LET entry == Mapping931[i]
             base_col == BASE_COL_931 + (month - 1) * BLOCK_WIDTH
             value == ResolveEntry(doc, entry)
             rest == Get931From(doc, month, i + 1)
         IN  IF value.t # "none"
             THEN <<[row |-> entry.row, col |-> base_col + entry.col_offset,
                     value |-> value]>> \o rest
             ELSE rest

get_931_values(doc, month) == Get931From(doc, month, 1)

\* variant of _resolve_dynamic without the break: an item is added once for
\* every pattern its label contains
RECURSIVE DynamicFromNoBreak(_, _, _)
DynamicFromNoBreak(items, patterns, i) ==
    IF i > Len(items) THEN [total |-> 0, matches |-> 0]
    ELSE LET rest == DynamicFromNoBreak(items, patterns, i + 1)
             label == normalize(items[i].normalized_label)
             hits == Cardinality({k \in 1..Len(patterns) : Contains(patterns[k], label)})
         IN  [total |-> hits * items[i].value + rest.total, matches |-> rest.matches + hits]

\* _resolve_dynamic: sum of the items whose label contains any pattern
RECURSIVE DynamicFrom(_, _, _)
DynamicFrom(items, patterns, i) ==
    IF i > Len(items) THEN [total |-> 0, matches |-> 0]
    ELSE LET rest == DynamicFrom(items, patterns, i + 1)
             label == normalize(items[i].normalized_label)
             hit == \E k \in 1..Len(patterns) : Contains(patterns[k], label)
         IN  IF hit
             THEN [total |-> items[i].value + rest.total, matches |-> rest.matches + 1]
             ELSE rest

ResolveDynamic(doc, config) ==
    IF config.match_any = <<>> THEN None
    ELSE LET r == DynamicFrom(doc.conceptos_dinamicos, config.match_any, 1)
         IN  IF r.matches > 0 THEN Num(r.total) ELSE None

\* _analisis_index.get(row_num): the last entry declared for the row wins
AnalisisEntries(row_num) ==
    {i \in 1..Len(MappingAnalisis) : MappingAnalisis[i].row = row_num}

\* first dynamic key (declaration order) contained in the normalized label
DynamicHits(concepto_norm) ==
    {i \in 1..Len(MappingDynamic) : Contains(normalize(MappingDynamic[i].key), concepto_norm)}

Max(S) == CHOOSE x \in S : \A y \in S : y <= x
Min(S) == CHOOSE x \in S : \A y \in S : x <= y

\* resolve_analisis_value
resolve_analisis_value(doc, row_num, concepto_text) ==
    IF AnalisisEntries(row_num) # {}
    THEN ResolveEntry(doc, MappingAnalisis[Max(AnalisisEntries(row_num))])
    ELSE LET concepto_norm == normalize(concepto_text)
         IN  IF DynamicHits(concepto_norm) # {}
             THEN ResolveDynamic(doc, MappingDynamic[Min(DynamicHits(concepto_norm))])
             ELSE None

(***************************************************************************)
(* ExcelLoader: the two sheet writers and the month-column detection       *)
(***************************************************************************)
\* variant of the '931' writer without the zero guard
RECURSIVE Write931FromNoZeroGuard(_, _, _)
Write931FromNoZeroGuard(acc, values, i) ==
    IF i > Len(values) THEN acc
    ELSE LET item == values[i]
             rc == <<item.row, item.col>>
             cell == acc.sheet[rc]
         IN  IF IsFormulaCell(cell) \/ item.value.t = "none"
             THEN Write931FromNoZeroGuard(acc, values, i + 1)
             ELSE Write931FromNoZeroGuard(
                     [sheet |-> [acc.sheet EXCEPT ![rc] = CellAssign(item.value)],
                      written |-> acc.written + 1,
                      cells |-> acc.cells \cup {rc}],
                     values, i + 1)

\* _write_931: one pass over the resolved values; `cells` is the set of
\* coordinates reported on the per-cell output line, `written` the count
RECURSIVE Write931From(_, _, _)
Write931From(acc, values, i) ==
    IF i > Len(values) THEN acc
    ELSE LET item == values[i]
             rc == <<item.row, item.col>>
             cell == acc.sheet[rc]
         IN  IF IsFormulaCell(cell)
             THEN Write931From(acc, values, i + 1)
             ELSE IF IsZero(item.value) /\ HoldsData(cell)
             THEN Write931From(acc, values, i + 1)
             ELSE IF item.value.t = "none"
             THEN Write931From(acc, values, i + 1)
             ELSE Write931From(
                     [sheet |-> [acc.sheet EXCEPT ![rc] = CellAssign(item.value)],
                      written |-> acc.written + 1,
                      cells |-> acc.cells \cup {rc}],
                     values, i + 1)

\* variant of the '931' writer that adds a resolved figure to the figure
\* already in the cell instead of replacing it
write_931_accum(sheet, doc, month) ==
    LET r == Write931From([sheet |-> sheet, written |-> 0, cells |-> {}],
                          get_931_values(doc, month), 1)
    IN  [r EXCEPT !.sheet =
            [rc \in DOMAIN r.sheet |->
                IF rc \in r.cells /\ sheet[rc].t = "num" /\ r.sheet[rc].t = "num"
                THEN Num(sheet[rc].n + r.sheet[rc].n)
                ELSE r.sheet[rc]]]

write_931(sheet, doc, month) ==
    Write931From([sheet |-> sheet, written |-> 0, cells |-> {}],
                 get_931_values(doc, month), 1)

\* variant of the 'Analisis General' writer without the formula check
RECURSIVE WriteAGFromNoFormulaCheck(_, _, _, _, _)
WriteAGFromNoFormulaCheck(acc, labels, doc, month_col, row_num) ==
    IF row_num > LAST_DATA_ROW THEN acc
    ELSE IF labels[row_num] = <<>>
    THEN WriteAGFromNoFormulaCheck(acc, labels, doc, month_col, row_num + 1)
    ELSE LET rc == <<row_num, month_col>>
             target_cell == acc.sheet[rc]
             value == resolve_analisis_value(doc, row_num, Strip(labels[row_num]))
         IN  IF value.t = "none" \/ (IsZero(value) /\ HoldsData(target_cell))
             THEN WriteAGFromNoFormulaCheck(acc, labels, doc, month_col, row_num + 1)
             ELSE WriteAGFromNoFormulaCheck(
                     [sheet |-> [acc.sheet EXCEPT ![rc] = CellAssign(value)],
                      written |-> acc.written + 1,
                      cells |-> acc.cells \cup {rc}],
                     labels, doc, month_col, row_num + 1)

\* _write_analisis_general: rows FIRST_DATA_ROW..LAST_DATA_ROW of month_col
RECURSIVE WriteAGFrom(_, _, _, _, _)
WriteAGFrom(acc, labels, doc, month_col, row_num) ==
    IF row_num > LAST_DATA_ROW THEN acc
    ELSE IF labels[row_num] = <<>>
    THEN WriteAGFrom(acc, labels, doc, month_col, row_num + 1)
    ELSE LET concepto_text == Strip(labels[row_num])
             rc == <<row_num, month_col>>
             target_cell == acc.sheet[rc]
             value == resolve_analisis_value(doc, row_num, concepto_text)
         IN  IF IsFormulaCell(target_cell)
             THEN WriteAGFrom(acc, labels, doc, month_col, row_num + 1)
             ELSE IF value.t = "none"
             THEN WriteAGFrom(acc, labels, doc, month_col, row_num + 1)
             ELSE IF IsZero(value) /\ HoldsData(target_cell)
             THEN WriteAGFrom(acc, labels, doc, month_col, row_num + 1)
             ELSE WriteAGFrom(
                     [sheet |-> [acc.sheet EXCEPT ![rc] = CellAssign(value)],
                      written |-> acc.written + 1,
                      cells |-> acc.cells \cup {rc}],
                     labels, doc, month_col, row_num + 1)

write_analisis_general(sheet, labels, doc, month_col) ==
    WriteAGFrom([sheet |-> sheet, written |-> 0, cells |-> {}],
                labels, doc, month_col, FIRST_DATA_ROW)

\* a column detection that ignores the month: every period is sent to the
\* first month column
detect_analisis_column_first(w, template, year, month) ==
    IF w.hasAG /\ template.hasTitulos /\ template.anchorIsDate THEN MIN_MONTH_COL ELSE 0

\* _detect_analisis_column; 0 stands for the ValueError
detect_analisis_column(w, template, year, month) ==
    LET found == {c \in DOMAIN w.hdr : w.hdr[c] = year * 100 + month}
        col == month + ANCHOR_SHIFT
    IN  IF w.hasAG /\ found # {} THEN Min(found)
        ELSE IF ~ template.hasTitulos THEN 0
        ELSE IF template.anchorIsDate /\ MIN_MONTH_COL <= col /\ col <= MAX_MONTH_COL
             THEN col
        ELSE 0

\* the writes of one period on the open workbook (detect column, write
\* '931', write 'Analisis General'); ok = FALSE when one of them raised
\* the period's writes raise: no month column could be determined, or the
\* 'Analisis General' sheet does not exist
PeriodRaises(w, ag_col) == ag_col = 0 \/ ~ w.hasAG

PeriodResult(w, ag_col, r931, rag) ==
    IF PeriodRaises(w, ag_col)
    THEN [ok |-> FALSE, wb |-> w, n931 |-> 0, nAG |-> 0, c931 |-> {}, cAG |-> {}]
    ELSE [ok |-> TRUE,
          wb |-> [w EXCEPT !.s931 = r931.sheet, !.ag = rag.sheet],
          n931 |-> r931.written, nAG |-> rag.written,
          c931 |-> r931.cells, cAG |-> rag.cells]

WritePeriod(w, template, doc) ==
    LET year == YearOf(doc.periodo_iso)
        month == MonthOf(doc.periodo_iso)
        ag_col == detect_analisis_column(w, template, year, month)
    IN  PeriodResult(w, ag_col,
                     write_931(w.s931, doc, month),
                     IF PeriodRaises(w, ag_col)
                     THEN [sheet |-> w.ag, written |-> 0, cells |-> {}]
                     ELSE write_analisis_general(w.ag, w.labels, doc, ag_col))

(***************************************************************************)
(* Inputs of the Excel writer: the template and the consolidated files     *)
(***************************************************************************)
\* initial content of the target cells of a sheet: empty, a figure typed
\* by the operator, or a formula
Prefill(kind) ==
    CASE kind = "empty" -> None
      [] kind = "manual" -> Num(9)
      [] kind = "formula" -> Formula("=F")

PrefillKinds == {"empty", "manual", "formula"}

\* header/anchor variants of the template:
\*   "dated"    row 7 of 'Analisis General' holds the month dates of the year
\*   "anchor"   no matching date in row 7, Titulos!B3 is a date
\*   "noanchor" no matching date in row 7, Titulos!B3 is not a date
\*   "nosheet"  the workbook has no 'Analisis General' sheet
\* "partial": only the first month column carries a date and the anchor
\* cell of 'Títulos' holds no date, so every later month has no column
HeaderModes == {"dated", "anchor", "noanchor", "nosheet", "partial"}

\* the year the template's header dates belong to
TemplateYear == Max(Years)

\* the concept labels of column B: a structured row, a dynamic row whose
\* label contains the first dynamic key, a row no mapping covers, and empty
\* rows below
TemplateLabels ==
    [r \in DataRows |->
        CASE r = 8 -> <<"R", "E", "M">>
          [] r = 9 -> <<" ", "F", "á", "C", " ", "(", "x", ")">>
          [] r = 10 -> <<"I", "V", "A">>
          [] OTHER -> <<>>]

\* in the template the month dates of row 7 sit in columns D..O, the
\* column of month m being m + 3 (excel_loader.py: "D=4 para enero")
Template(k931, kAG, hmode) ==
    [s931 |-> [rc \in Rows931 \X Cols931 |-> Prefill(k931)],
     ag |-> [rc \in DataRows \X AGCols |-> Prefill(kAG)],
     labels |-> TemplateLabels,
     hdr |-> [c \in AGCols |->
                IF hmode = "dated" \/ (hmode = "partial" /\ c = MIN_MONTH_COL)
                THEN TemplateYear * 100 + (c - ANCHOR_SHIFT)
                ELSE 0],
     hasAG |-> hmode # "nosheet",
     hasTitulos |-> TRUE,
     anchorIsDate |-> hmode \notin {"noanchor", "partial"}]

Templates ==
    {Template(k1, k2, h) : k1 \in PrefillKinds, k2 \in PrefillKinds, h \in HeaderModes}

\* raw values under the mapped JSON path, and the asiento's dynamic items
RawTotals == {None, Num(0), Num(5), Str("=S")}

DynamicLists ==
    { << >>,
      << [normalized_label |-> <<"F", "a", "c", "y", "s">>, value |-> 3],
         [normalized_label |-> <<"o", "t", "r", "o">>, value |-> 1],
         [normalized_label |-> <<"c", "y", "c">>, value |-> 4] >>,
      << [normalized_label |-> <<"f", "a", "c">>, value |-> 0] >> }

BaseDocs ==
    {[total |-> t, conceptos_dinamicos |-> d] : t \in RawTotals, d \in DynamicLists}

\* one consolidated document cloned into the file of period p; with a
\* month offset added to its numeric figure when `vary` is set
CloneFor(base, p, vary) ==
    [periodo_iso |-> p,
     fields |-> [x \in {PathTotal} |->
                    IF vary /\ base.total.t = "num"
                    THEN Num(base.total.n + MonthOf(p))
                    ELSE base.total],
     conceptos_dinamicos |-> base.conceptos_dinamicos]

NoWrite == [n931 |-> 0, nAG |-> 0, c931 |-> {}, cAG |-> {}]

\* sorted(consolidated_paths)
RECURSIVE SortedPaths(_)
SortedPaths(S) == IF S = {} THEN <<>> ELSE <<Min(S)>> \o SortedPaths(S \ {Min(S)})

\* the writes of a whole batch on workbook w, given that none raises
RECURSIVE BuildAll(_, _, _, _)
BuildAll(w, template, fs, seq) ==
    IF seq = <<>> THEN w
    ELSE BuildAll(WritePeriod(w, template, fs[Head(seq)]).wb, template, fs, Tail(seq))

InitExcelVars ==
    /\ tpl \in Templates
    /\ \E base \in BaseDocs, vary \in BOOLEAN :
          files = [p \in Periods |-> CloneFor(base, p, vary)]
    /\ disk = NoFile
    /\ wb = NoFile
    /\ xpc = "idle"
    /\ xmode = "none"
    /\ queue = <<>>
    /\ wlog = <<>>
    /\ loaded = {}
    /\ prev = NoFile
    /\ lastPer = 0
    /\ lastW = NoWrite
    /\ xerr = "none"
    /\ runSet = {}
    /\ created = "none"
    /\ nsaves = 0
    /\ coreOnly = TRUE

IdleExcelVars ==
    /\ tpl = NoFile
    /\ files = <<>>
    /\ disk = NoFile
    /\ wb = NoFile
    /\ xpc = "off"
    /\ xmode = "none"
    /\ queue = <<>>
    /\ wlog = <<>>
    /\ loaded = {}
    /\ prev = NoFile
    /\ lastPer = 0
    /\ lastW = NoWrite
    /\ xerr = "none"
    /\ runSet = {}
    /\ created = "none"
    /\ nsaves = 0
    /\ coreOnly = TRUE

(***************************************************************************)
(* Excel writer: entry points.  A run opens the workbook once, writes the  *)
(* queued periods one by one, and saves once.                              *)
(***************************************************************************)
OpenRun(mode, S, copyTemplate) ==
    /\ disk' = IF copyTemplate THEN tpl ELSE disk
    /\ wb' = disk'
    /\ xpc' = "writing"
    /\ xmode' = mode
    /\ runSet' = S
    /\ queue' = SortedPaths(S)
    /\ wlog' = <<>>
    /\ loaded' = IF copyTemplate THEN {} ELSE loaded
    /\ created' = IF copyTemplate THEN mode ELSE created
    /\ nsaves' = IF copyTemplate THEN 0 ELSE nsaves
    /\ coreOnly' = IF copyTemplate THEN TRUE ELSE coreOnly
    /\ xerr' = "none"
    /\ UNCHANGED <<tpl, files, prev, lastPer, lastW>>

\* variant of the core build_year that copies the template over an existing
\* destination before opening it
CoreBuildYearOpenCopies(S) ==
    /\ sys = "excel"
    /\ xpc = "idle"
    /\ S # {}
    /\ disk' = tpl
    /\ wb' = tpl
    /\ xpc' = "writing"
    /\ xmode' = "core"
    /\ runSet' = S
    /\ queue' = SortedPaths(S)
    /\ wlog' = <<>>
    /\ created' = "core"
    /\ xerr' = "none"
    /\ IF disk = NoFile
       THEN loaded' = {} /\ nsaves' = 0 /\ coreOnly' = TRUE
       ELSE UNCHANGED <<loaded, nsaves, coreOnly>>
    /\ UNCHANGED <<tpl, files, prev, lastPer, lastW>>

\* core ExcelBatchLoader.build_year, up to load_workbook
CoreBuildYearOpen(S) ==
    /\ sys = "excel"
    /\ xpc = "idle"
    /\ S # {}
    /\ OpenRun("core", S, disk = NoFile)

\* build_year with an empty list raises before touching any file
CoreBuildYearEmpty ==
    /\ sys = "excel"
    /\ xpc = "idle"
    /\ xerr # "error"
    /\ xerr' = "error"
    /\ UNCHANGED <<tpl, files, disk, wb, xpc, xmode, queue, wlog, loaded, prev, lastPer,
                   lastW, runSet, created, nsaves, coreOnly>>

\* ExcelLoader.build_from_template, up to load_workbook
BuildFromTemplate(p) ==
    /\ sys = "excel"
    /\ xpc = "idle"
    /\ OpenRun("single", {p}, TRUE)

\* ExcelLoader.update_existing, up to load_workbook
UpdateExisting(p) ==
    /\ sys = "excel"
    /\ xpc = "idle"
    /\ disk # NoFile
    /\ OpenRun("update", {p}, FALSE)

\* update_existing on a missing file raises FileNotFoundError
UpdateMissing ==
    /\ sys = "excel"
    /\ xpc = "idle"
    /\ disk = NoFile
    /\ xerr # "error"
    /\ xerr' = "error"
    /\ UNCHANGED <<tpl, files, disk, wb, xpc, xmode, queue, wlog, loaded, prev, lastPer,
                   lastW, runSet, created, nsaves, coreOnly>>

\* flat-layout ExcelBatchLoader.build_year, up to load_workbook
FlatBuildYearOpen(S) ==
    /\ sys = "flat"
    /\ xpc = "idle"
    /\ S # {}
    /\ OpenRun("flat", S, TRUE)

\* one iteration of the period loop (one _process_workbook body for the
\* single-period entry points)
WriteNextPeriod ==
    /\ xpc = "writing"
    /\ queue # <<>>
    /\ \E r \in {WritePeriod(wb, tpl, files[Head(queue)])} :
           /\ r.ok
           /\ wb' = r.wb
           /\ prev' = wb
           /\ lastPer' = Head(queue)
           /\ lastW' = [n931 |-> r.n931, nAG |-> r.nAG, c931 |-> r.c931, cAG |-> r.cAG]
           /\ wlog' = Append(wlog, [periodo |-> Head(queue), hoja_931 |-> r.n931,
                                    analisis_general |-> r.nAG, total |-> r.n931 + r.nAG])
    /\ queue' = Tail(queue)
    /\ UNCHANGED <<tpl, files, disk, xpc, xmode, loaded, xerr, runSet, created, nsaves, coreOnly>>

\* variant of the raising iteration that saves what the earlier iterations
\* wrote before the exception leaves the run
WritePeriodRaisesSaves ==
    /\ xpc = "writing"
    /\ queue # <<>>
    /\ LET doc == files[Head(queue)]
       IN  PeriodRaises(wb, detect_analisis_column(wb, tpl, YearOf(doc.periodo_iso),
                                                   MonthOf(doc.periodo_iso)))
    /\ disk' = wb
    /\ wb' = NoFile
    /\ xpc' = "idle"
    /\ xmode' = "none"
    /\ queue' = <<>>
    /\ runSet' = {}
    /\ prev' = NoFile
    /\ lastPer' = 0
    /\ lastW' = NoWrite
    /\ xerr' = "error"
    /\ wlog' = <<>>
    /\ UNCHANGED <<tpl, files, loaded, created, nsaves, coreOnly>>

\* the iteration raises (no month column, or no 'Analisis General' sheet):
\* the exception leaves the run, the workbook object is dropped unsaved
WritePeriodRaises ==
    /\ xpc = "writing"
    /\ queue # <<>>
    /\ LET doc == files[Head(queue)]
       IN  PeriodRaises(wb, detect_analisis_column(wb, tpl, YearOf(doc.periodo_iso),
                                                   MonthOf(doc.periodo_iso)))
    /\ wb' = NoFile
    /\ xpc' = "idle"
    /\ xmode' = "none"
    /\ queue' = <<>>
    /\ runSet' = {}
    /\ prev' = NoFile
    /\ lastPer' = 0
    /\ lastW' = NoWrite
    /\ xerr' = "error"
    /\ wlog' = <<>>
    /\ UNCHANGED <<tpl, files, disk, loaded, created, nsaves, coreOnly>>

\* wb.save(output_path); wb.close()
SaveWorkbook ==
    /\ xpc = "writing"
    /\ queue = <<>>
    /\ disk' = wb
    /\ wb' = NoFile
    /\ xpc' = "idle"
    /\ xmode' = "none"
    /\ loaded' = loaded \cup runSet
    /\ nsaves' = IF nsaves < 2 THEN nsaves + 1 ELSE 2
    /\ coreOnly' = (coreOnly /\ xmode = "core")
    /\ runSet' = {}
    /\ prev' = NoFile
    /\ lastPer' = 0
    /\ lastW' = NoWrite
    /\ xerr' = "ok"
    /\ wlog' = <<>>
    /\ UNCHANGED <<tpl, files, queue, created>>


(***************************************************************************)
(* Claims about the Excel writer                                           *)
(***************************************************************************)
\* the month column of 'Analisis General' used by the last period write
LastCol ==
    detect_analisis_column(prev, tpl, YearOf(lastPer), MonthOf(lastPer))

\* the values the mapping engine resolved for the '931' sheet in that write
LastValues == get_931_values(files[lastPer], MonthOf(lastPer))

\* the value the mapping engine resolved for a row of 'Analisis General'
LastAGValue(r) == resolve_analisis_value(files[lastPer], r, Strip(prev.labels[r]))

\* C1: a cell of '931' or 'Analisis General' that holds a formula before a
\* period write holds the same formula after it, in single-period and in
\* batch runs, whatever value was resolved for its coordinate.
C1_FormulaProtected ==
    prev # NoFile =>
        /\ \A rc \in DOMAIN prev.s931 :
              IsFormulaCell(prev.s931[rc]) => wb.s931[rc] = prev.s931[rc]
        /\ \A rc \in DOMAIN prev.ag :
              IsFormulaCell(prev.ag[rc]) => wb.ag[rc] = prev.ag[rc]

\* a write has resolved a value for a formula cell on both sheets
C1_Witness ==
    /\ prev # NoFile
    /\ \E i \in 1..Len(LastValues) :
          IsFormulaCell(prev.s931[<<LastValues[i].row, LastValues[i].col>>])
    /\ \E r \in DataRows :
          /\ prev.labels[r] # <<>>
          /\ LastAGValue(r).t # "none"
          /\ IsFormulaCell(prev.ag[<<r, LastCol>>])

\* C2: when the target cell holds a non-empty, non-zero value and the value
\* resolved for it is exactly 0, the write leaves the cell unchanged and
\* does not count it as written; on both sheets, for every period of a run.
C2_ZeroRegression ==
    prev # NoFile =>
        /\ \A i \in 1..Len(LastValues) :
              LET rc == <<LastValues[i].row, LastValues[i].col>>
              IN  (IsZero(LastValues[i].value) /\ HoldsData(prev.s931[rc])) =>
                      (wb.s931[rc] = prev.s931[rc] /\ rc \notin lastW.c931)
        /\ \A r \in DataRows :
              LET rc == <<r, LastCol>>
              IN  (prev.labels[r] # <<>> /\ IsZero(LastAGValue(r)) /\ HoldsData(prev.ag[rc])) =>
                      (wb.ag[rc] = prev.ag[rc] /\ rc \notin lastW.cAG)
        /\ lastW.n931 = Cardinality(lastW.c931)
        /\ lastW.nAG = Cardinality(lastW.cAG)

\* the second period of a batch resolved 0 for an operator-entered figure on
\* both sheets
C2_Witness ==
    /\ prev # NoFile
    /\ xmode = "core"
    /\ Len(wlog) >= 2
    /\ \E i \in 1..Len(LastValues) :
          LET rc == <<LastValues[i].row, LastValues[i].col>>
          IN  IsZero(LastValues[i].value) /\ prev.s931[rc] = Num(9)
    /\ \E r \in DataRows :
          /\ prev.labels[r] # <<>>
          /\ IsZero(LastAGValue(r))
          /\ prev.ag[<<r, LastCol>>] = Num(9)

\* the destination was created by build_year and exactly one build_year run
\* has been saved into it since
AfterFirstBuildYear ==
    /\ created = "core"
    /\ nsaves = 1
    /\ coreOnly

\* the save of a core build_year run is about to happen
CoreSaving ==
    /\ xpc = "writing"
    /\ xmode = "core"
    /\ queue = <<>>

\* C3: build_year with one period file into a fresh destination, then again
\* with the same file: the second run leaves every cell of the saved
\* workbook as the first run left it.
C3_Idempotent ==
    [][(/\ CoreSaving
        /\ AfterFirstBuildYear
        /\ Cardinality(runSet) = 1
        /\ loaded = runSet
        /\ xpc' = "idle") => disk' = disk]_vars

\* the second run of the same single file has written cells and is about
\* to save
C3_Witness ==
    /\ CoreSaving
    /\ AfterFirstBuildYear
    /\ Cardinality(runSet) = 1
    /\ loaded = runSet
    /\ disk # tpl
    /\ \E e \in {wlog[1]} : e.total > 0

SameYearDistinctMonths(S) ==
    \A p \in S, q \in S :
        /\ YearOf(p) = YearOf(q)
        /\ MonthOf(p) = MonthOf(q) => p = q

\* the cells of a workbook that belong to the months of the periods in S
AgreeOnMonths(w1, w2, S) ==
    /\ \A rc \in DOMAIN w1.s931 :
          (\E p \in S :
              /\ rc[2] >= BASE_COL_931 + (MonthOf(p) - 1) * BLOCK_WIDTH
              /\ rc[2] < BASE_COL_931 + MonthOf(p) * BLOCK_WIDTH)
          => w2.s931[rc] = w1.s931[rc]
    /\ \A rc \in DOMAIN w1.ag :
          (\E p \in S : rc[2] = MonthOf(p) + ANCHOR_SHIFT) => w2.ag[rc] = w1.ag[rc]

\* C4: for periods of distinct months of one year, build_year with a first
\* subset of the files and then build_year with the remaining files leaves
\* every cell as a single build_year call with all the files does, and the
\* months of the first call keep their content.
C4_IncrementalEquivalence ==
    [][(/\ CoreSaving
        /\ AfterFirstBuildYear
        /\ loaded # {}
        /\ loaded \cap runSet = {}
        /\ SameYearDistinctMonths(loaded \cup runSet)
        /\ xpc' = "idle")
       => /\ disk' = BuildAll(tpl, tpl, files, SortedPaths(loaded \cup runSet))
          /\ AgreeOnMonths(disk, disk', loaded)]_vars

\* a second call with the remaining files has been saved, and every loaded
\* month has cells written on both sheets
C4_Witness ==
    /\ xpc = "idle"
    /\ created = "core"
    /\ nsaves = 2
    /\ coreOnly
    /\ Cardinality(loaded) >= 2
    /\ \A p \in loaded :
          /\ \E rc \in DOMAIN disk.s931 :
                /\ rc[2] >= BASE_COL_931 + (MonthOf(p) - 1) * BLOCK_WIDTH
                /\ rc[2] < BASE_COL_931 + MonthOf(p) * BLOCK_WIDTH
                /\ disk.s931[rc] # tpl.s931[rc]
          /\ \E r \in DataRows :
                disk.ag[<<r, MonthOf(p) + ANCHOR_SHIFT>>] # tpl.ag[<<r, MonthOf(p) + ANCHOR_SHIFT>>]

\* C5: when the destination workbook already exists, the flat-layout
\* build_year opens it directly and does not copy the template over it, so
\* what earlier build_year calls saved is what the later call starts from.
C5_FlatOpensExisting ==
    [][(/\ sys = "flat"
        /\ xpc = "idle"
        /\ xpc' = "writing"
        /\ disk # NoFile) => (disk' = disk /\ wb' = disk)]_vars

(***************************************************************************)
(* Consolidators V1 and V2                                                 *)
(***************************************************************************)
SOURCE_PRIORITY == <<"f931", "borrador", "asiento">>
PriorityIndex(name) == CHOOSE i \in 1..Len(SOURCE_PRIORITY) : SOURCE_PRIORITY[i] = name

\* keys the canonical models may carry, and the keys asked of consolidate():
\* the last one is in no model
ModelKeys == {"remuneracion_total", "aportes_ss"}
ConceptKeys == <<"remuneracion_total", "aportes_ss", "contribuciones_os">>
KeyIndex(k) == CHOOSE i \in 1..Len(ConceptKeys) : ConceptKeys[i] = k

\* float(concept.valor): [ok, v]; ok = FALSE when it raises TypeError or
\* ValueError
ToFloat(valor) ==
    IF valor.t = "num" THEN [ok |-> TRUE, v |-> valor.n]
    ELSE [ok |-> FALSE, v |-> 0]

\* text of a period as a sequence of characters
IsoMay == <<"2", "0", "2", "5", "-", "0", "5">>
DetectedMay == <<"5", "/", "2", "0", "2", "5">>
DetectedWords == <<"m", "a", "y", "o">>
DetectedShort == <<"0", "5", "/", "2", "5">>

IsDigit(c) == c \in {"0", "1", "2", "3", "4", "5", "6", "7", "8", "9"}

\* str.zfill(2)
ZFill2(x) ==
    IF Len(x) = 0 THEN <<"0", "0">> ELSE IF Len(x) = 1 THEN <<"0">> \o x ELSE x

\* position of the first "/" of x, 0 if there is none
FirstSlash(x) ==
    IF \E i \in 1..Len(x) : x[i] = "/"
    THEN Min({i \in 1..Len(x) : x[i] = "/"})
    ELSE 0

\* indexers/base.py extract_periodo: the periodo of the canonical model
extract_periodo(md) ==
    IF md.periodo_iso # <<>> /\ Len(md.periodo_iso) = 7
       /\ (\E i \in 1..Len(md.periodo_iso) : md.periodo_iso[i] = "-")
    THEN md.periodo_iso
    ELSE LET val == Strip(md.periodo_detectado)
             k == FirstSlash(val)
             mm == ZFill2(SubSeq(val, 1, k - 1))
             yyyy == SubSeq(val, k + 1, Len(val))
         IN  IF k # 0 /\ FirstSlash(yyyy) = 0 /\ Len(yyyy) = 4
                /\ (\A i \in 1..Len(yyyy) : IsDigit(yyyy[i]))
                /\ (\A i \in 1..Len(mm) : IsDigit(mm[i]))
             THEN yyyy \o <<"-">> \o mm
             ELSE <<>>

\* the metadata a parsed document may carry (<<>> for an absent field)
RawMetas ==
    { [periodo_iso |-> IsoMay, periodo_detectado |-> <<>>],
      [periodo_iso |-> <<>>, periodo_detectado |-> DetectedMay],
      [periodo_iso |-> <<>>, periodo_detectado |-> DetectedWords],
      [periodo_iso |-> <<>>, periodo_detectado |-> DetectedShort] }

\* a concept of a canonical model: absent, a figure, or a value float()
\* rejects; the figure tells the source and the key apart
ValorKinds == {"absent", "number", "uncastable"}

ConceptosOf(name, kinds) ==
    [k \in {x \in ModelKeys : kinds[x] # "absent"} |->
        IF kinds[k] = "number"
        THEN [valor |-> Num(PriorityIndex(name) * 10 + KeyIndex(k))]
        ELSE [valor |-> Str("n/d")]]

\* one source of a consolidation: its parsed document (sources_raw) and the
\* canonical model normalized from it
SourceInput(name, md, kinds) ==
    [source |-> name,
     metadata |-> md,
     periodo |-> extract_periodo(md),
     conceptos |-> ConceptosOf(name, kinds)]

SourceInputs(name) ==
    {SourceInput(name, md, kinds) : md \in RawMetas, kinds \in [ModelKeys -> ValorKinds]}

\* {model.source: model for model in sources}: a later model of the same
\* source replaces an earlier one
CanonByName(sources, name) ==
    LET idx == {i \in 1..Len(sources) : sources[i].source = name}
    IN  IF idx = {} THEN NoRes ELSE sources[Max(idx)]

\* variant of _resolve_concept that does not stop at the first source: the
\* last source of the priority list that has the key wins
RECURSIVE ResolveConceptFromLast(_, _, _)
ResolveConceptFromLast(sources, key, i) ==
    IF i > Len(SOURCE_PRIORITY) THEN [found |-> FALSE, value |-> 0, origin |-> ""]
    ELSE LET source_name == SOURCE_PRIORITY[i]
             model == CanonByName(sources, source_name)
             later == ResolveConceptFromLast(sources, key, i + 1)
         IN  IF later.found THEN later
             ELSE IF model # NoRes /\ key \in DOMAIN model.conceptos
                     /\ ToFloat(model.conceptos[key].valor).ok
             THEN [found |-> TRUE, value |-> ToFloat(model.conceptos[key].valor).v,
                   origin |-> source_name]
             ELSE later

\* _resolve_concept: walk the priority list, first model that has the key
\* with a value float() accepts
RECURSIVE ResolveConceptFrom(_, _, _)
ResolveConceptFrom(sources, key, i) ==
    IF i > Len(SOURCE_PRIORITY) THEN [found |-> FALSE, value |-> 0, origin |-> ""]
    ELSE LET source_name == SOURCE_PRIORITY[i]
             model == CanonByName(sources, source_name)
         IN  IF model = NoRes
             THEN ResolveConceptFrom(sources, key, i + 1)
             ELSE IF key \notin DOMAIN model.conceptos
             THEN ResolveConceptFrom(sources, key, i + 1)
             ELSE IF ToFloat(model.conceptos[key].valor).ok
             THEN [found |-> TRUE, value |-> ToFloat(model.conceptos[key].valor).v,
                   origin |-> source_name]
             ELSE ResolveConceptFrom(sources, key, i + 1)

resolve_concept(sources, key) == ResolveConceptFrom(sources, key, 1)

\* variant of the consolidation loop that records an unresolved key in
\* faltantes only when no source has it at all
RECURSIVE CanonicalBlockFromLossy(_, _, _, _)
CanonicalBlockFromLossy(sources, keys, i, acc) ==
    IF i > Len(keys) THEN acc
    ELSE LET key == keys[i]
             r == resolve_concept(sources, key)
         IN  IF r.found
             THEN CanonicalBlockFromLossy(sources, keys, i + 1,
                    [acc EXCEPT
                       !.conceptos = [k \in DOMAIN acc.conceptos \cup {key} |->
                                        IF k = key THEN r.value ELSE acc.conceptos[k]],
                       !.origen_por_concepto =
                           [k \in DOMAIN acc.origen_por_concepto \cup {key} |->
                              IF k = key THEN r.origin ELSE acc.origen_por_concepto[k]]])
             ELSE IF \E j \in 1..Len(sources) : key \in DOMAIN sources[j].conceptos
             THEN CanonicalBlockFromLossy(sources, keys, i + 1, acc)
             ELSE CanonicalBlockFromLossy(sources, keys, i + 1,
                    [acc EXCEPT !.faltantes = Append(acc.faltantes, key)])

\* the loop of Consolidator.consolidate / _build_canonical_block
RECURSIVE CanonicalBlockFrom(_, _, _, _)
CanonicalBlockFrom(sources, keys, i, acc) ==
    IF i > Len(keys) THEN acc
    ELSE LET key == keys[i]
             r == resolve_concept(sources, key)
         IN  IF r.found
             THEN CanonicalBlockFrom(sources, keys, i + 1,
                    [acc EXCEPT
                       !.conceptos = [k \in DOMAIN acc.conceptos \cup {key} |->
                                        IF k = key THEN r.value ELSE acc.conceptos[k]],
                       !.origen_por_concepto =
                           [k \in DOMAIN acc.origen_por_concepto \cup {key} |->
                              IF k = key THEN r.origin ELSE acc.origen_por_concepto[k]]])
             ELSE CanonicalBlockFrom(sources, keys, i + 1,
                    [acc EXCEPT !.faltantes = Append(acc.faltantes, key)])

build_canonical_block(sources, keys, periodo) ==
    CanonicalBlockFrom(sources, keys, 1,
        [periodo |-> periodo, conceptos |-> <<>>, origen_por_concepto |-> <<>>,
         faltantes |-> <<>>])

\* Consolidator._resolve_period (V1)
RECURSIVE ResolvePeriodFrom(_, _)
ResolvePeriodFrom(sources, i) ==
    IF i > Len(SOURCE_PRIORITY) THEN <<>>
    ELSE LET model == CanonByName(sources, SOURCE_PRIORITY[i])
         IN  IF model # NoRes /\ model.periodo # <<>>
             THEN model.periodo
             ELSE ResolvePeriodFrom(sources, i + 1)

\* ConsolidatorV2._resolve_period_iso, first loop: the raw metadata
RECURSIVE ResolveRawPeriodFrom(_, _)
ResolveRawPeriodFrom(sources, i) ==
    IF i > Len(SOURCE_PRIORITY) THEN [found |-> FALSE, p |-> <<>>]
    ELSE LET raw == CanonByName(sources, SOURCE_PRIORITY[i])
             md == IF raw = NoRes
                   THEN [periodo_iso |-> <<>>, periodo_detectado |-> <<>>]
                   ELSE raw.metadata
             pd == md.periodo_detectado
             k == FirstSlash(pd)
         IN  IF Strip(md.periodo_iso) # <<>>
             THEN [found |-> TRUE, p |-> Strip(md.periodo_iso)]
             ELSE IF k # 0
             THEN [found |-> TRUE,
                   p |-> Strip(SubSeq(pd, k + 1, Len(pd))) \o <<"-">>
                         \o ZFill2(SubSeq(pd, 1, k - 1))]
             ELSE ResolveRawPeriodFrom(sources, i + 1)

resolve_period_iso(sources) ==
    IF ResolveRawPeriodFrom(sources, 1).found
    THEN ResolveRawPeriodFrom(sources, 1).p
    ELSE ResolvePeriodFrom(sources, 1)

\* Consolidator(sources, concept_keys).consolidate()
ConsolidateV1 ==
    /\ sys = "consol"
    /\ cres = NoRes
    /\ cres' = [version |-> "v1",
                canonical |-> build_canonical_block(csources, ConceptKeys,
                                                    ResolvePeriodFrom(csources, 1))]
    /\ UNCHANGED csources

\* ConsolidatorV2(sources_canonical, sources_raw, concept_keys).consolidate()
ConsolidateV2 ==
    /\ sys = "consol"
    /\ cres = NoRes
    /\ cres' = [version |-> "2.0.0",
                canonical |-> build_canonical_block(csources, ConceptKeys,
                                                    resolve_period_iso(csources))]
    /\ UNCHANGED csources

\* the sources of one consolidation: at most one document per source,
\* handed over in priority order
InitConsolVars ==
    /\ \E a \in SourceInputs("f931") \cup {NoRes},
          b \in SourceInputs("borrador") \cup {NoRes},
          c \in SourceInputs("asiento") \cup {NoRes} :
          csources = SelectSeq(<<a, b, c>>, LAMBDA x : x # NoRes)
    /\ cres = NoRes

(***************************************************************************)
(* Claims about the consolidators                                          *)
(***************************************************************************)
ClaimedOrder == <<"f931", "borrador", "asiento">>

\* the models of a source among the inputs
ModelsOf(name) == {j \in 1..Len(csources) : csources[j].source = name}

\* positions of ClaimedOrder whose source has the key with a castable value
Suppliers(key) ==
    {i \in 1..Len(ClaimedOrder) :
        \E j \in ModelsOf(ClaimedOrder[i]) :
            /\ key \in DOMAIN csources[j].conceptos
            /\ csources[j].conceptos[key].valor.t = "num"}

KeysAsked == {ConceptKeys[i] : i \in 1..Len(ConceptKeys)}

\* C6: for every concept key, value and origin recorded by consolidate()
\* (V1 and V2) are those of the first source, in the order f931, borrador,
\* asiento, whose canonical model has the key with a value that casts to
\* float.
C6_Priority ==
    cres # NoRes =>
        \A key \in KeysAsked :
            Suppliers(key) # {} =>
                LET name == ClaimedOrder[Min(Suppliers(key))]
                IN  /\ key \in DOMAIN cres.canonical.conceptos
                    /\ cres.canonical.origen_por_concepto[key] = name
                    /\ \E j \in ModelsOf(name) :
                          cres.canonical.conceptos[key] = csources[j].conceptos[key].valor.n

\* V2 consolidated a key all three sources supply, and a key whose f931
\* value does not cast while borrador and asiento supply it
C6_Witness ==
    /\ cres # NoRes
    /\ cres.version = "2.0.0"
    /\ \E key \in KeysAsked :
          /\ Suppliers(key) = {1, 2, 3}
          /\ cres.canonical.origen_por_concepto[key] = "f931"
    /\ \E key \in KeysAsked :
          /\ Suppliers(key) = {2, 3}
          /\ \E j \in ModelsOf("f931") : key \in DOMAIN csources[j].conceptos
          /\ cres.canonical.origen_por_concepto[key] = "borrador"

FaltantesSet == {cres.canonical.faltantes[i] : i \in 1..Len(cres.canonical.faltantes)}

\* C7: in every consolidated canonical block the keys of conceptos and the
\* list faltantes are disjoint and together are the supplied concept keys,
\* conceptos and origen_por_concepto have the same keys, and a key that no
\* source's canonical model contains is in faltantes and not in conceptos.
C7_MissingAccounting ==
    cres # NoRes =>
        /\ DOMAIN cres.canonical.conceptos \cap FaltantesSet = {}
        /\ DOMAIN cres.canonical.conceptos \cup FaltantesSet = KeysAsked
        /\ DOMAIN cres.canonical.conceptos = DOMAIN cres.canonical.origen_por_concepto
        /\ \A key \in KeysAsked :
              (\A j \in 1..Len(csources) : key \notin DOMAIN csources[j].conceptos) =>
                  (key \in FaltantesSet /\ key \notin DOMAIN cres.canonical.conceptos)

\* a block with a resolved key, a key absent from every model and a key
\* present only with a value that does not cast
C7_Witness ==
    /\ cres # NoRes
    /\ DOMAIN cres.canonical.conceptos # {}
    /\ \E k1 \in FaltantesSet, k2 \in FaltantesSet :
          /\ \A j \in 1..Len(csources) : k1 \notin DOMAIN csources[j].conceptos
          /\ \E j \in 1..Len(csources) : k2 \in DOMAIN csources[j].conceptos

(***************************************************************************)
(* Normalizer: matchers and BaseNormalizer.normalize                       *)
(***************************************************************************)
\* Optional[str]: a string is a sequence of characters
Nothing == [none |-> TRUE, chars |-> <<>>]
Some(chars) == [none |-> FALSE, chars |-> chars]

\* `x or ""`
OrEmpty(x) == IF x.none THEN <<>> ELSE x.chars

\* str.lower()
Lower(text) == [i \in 1..Len(text) |-> LowerChar(text[i])]

\* `optional == text`
OptEquals(x, text) == ~x.none /\ x.chars = text

\* item_attrs.get(k)
AttrGet(item_attrs, k) == IF k \in DOMAIN item_attrs THEN item_attrs[k] ELSE "None"

\* _attributes_match; a filter is a set of <<key, value>> pairs, None and {}
\* are the empty set
attributes_match(item_attrs, filt) ==
    \A kv \in filt : AttrGet(item_attrs, kv[1]) = kv[2]

\* matcher_matches: "yes", "no" or "raise" (ValueError on an unsupported
\* type); re.search is modelled for literal patterns
matcher_matches(item, matcher) ==
    IF ~attributes_match(item.attributes, matcher.attributes_filter) THEN "no"
    ELSE LET t == Strip(Lower(matcher.type))
             Yes(b) == IF b THEN "yes" ELSE "no"
         IN  IF t = <<"e", "q", "u", "a", "l", "s">>
             THEN IF matcher.case_sensitive
                  THEN Yes(OptEquals(item.label, matcher.value))
                  ELSE Yes(Lower(OrEmpty(item.label)) = Lower(matcher.value))
             ELSE IF t = <<"r", "e", "g", "e", "x">>
             THEN Yes(Contains(Lower(matcher.value), Lower(OrEmpty(item.label))))
             ELSE IF t = <<"c", "o", "d", "i", "g", "o">>
             THEN Yes(OptEquals(item.codigo, matcher.value)
                      \/ OptEquals(item.label, matcher.value))
             ELSE IF t = <<"j", "s", "o", "n", "_", "p", "a", "t", "h">>
             THEN Yes(item.json_path = matcher.value)
             ELSE "raise"

\* the inner loop of _find_matches for one item: the first matcher that
\* matches ends the loop
RECURSIVE MatchItem(_, _, _)
MatchItem(item, matchers, j) ==
    IF j > Len(matchers) THEN "no"
    ELSE LET r == matcher_matches(item, matchers[j])
         IN  IF r = "no" THEN MatchItem(item, matchers, j + 1) ELSE r

\* variant of the inner loop without `break`: how many matchers match
RECURSIVE MatchCount(_, _, _)
MatchCount(item, matchers, j) ==
    IF j > Len(matchers) THEN 0
    ELSE (IF matcher_matches(item, matchers[j]) = "yes" THEN 1 ELSE 0)
         + MatchCount(item, matchers, j + 1)

\* variant of _find_matches that appends the item once per matching matcher
RECURSIVE FindMatchesNoBreak(_, _, _)
FindMatchesNoBreak(items, matchers, i) ==
    IF matchers = <<>> \/ i > Len(items) THEN [raised |-> FALSE, matched |-> <<>>]
    ELSE LET r == MatchItem(items[i], matchers, 1)
             rest == FindMatchesNoBreak(items, matchers, i + 1)
         IN  IF r = "raise" \/ rest.raised THEN [raised |-> TRUE, matched |-> <<>>]
             ELSE [raised |-> FALSE,
                   matched |-> [k \in 1..MatchCount(items[i], matchers, 1) |-> items[i]]
                               \o rest.matched]

\* _find_matches from item i on: [raised, matched]
RECURSIVE FindMatchesFrom(_, _, _)
FindMatchesFrom(items, matchers, i) ==
    IF matchers = <<>> \/ i > Len(items) THEN [raised |-> FALSE, matched |-> <<>>]
    ELSE LET r == MatchItem(items[i], matchers, 1)
             rest == FindMatchesFrom(items, matchers, i + 1)
         IN  IF r = "raise" \/ rest.raised THEN [raised |-> TRUE, matched |-> <<>>]
             ELSE [raised |-> FALSE,
                   matched |-> (IF r = "yes" THEN <<items[i]>> ELSE <<>>) \o rest.matched]

find_matches(indexed, matchers) == FindMatchesFrom(indexed.items, matchers, 1)

\* concept_def.matchers.get(source_name, []) or []
MatchersFor(concept_def, source_name) ==
    IF source_name \in DOMAIN concept_def.matchers
    THEN concept_def.matchers[source_name] ELSE <<>>

\* type(value).__name__
PyTypeName(v) ==
    CASE v.t = "num" -> "float"
      [] v.t = "str" -> "str"
      [] OTHER -> "NoneType"

\* candidates listed by an AMBIGUOUS_MATCH warning
MATCHES_SHOWN == 10

Candidate(m) == [label |-> m.label, codigo |-> m.codigo, json_path |-> m.json_path]

\* variant of the loop body that reports every concept without matches,
\* required or not
ConceptStepAlwaysMissing(impl, acc, concept_def, matches) ==
    LET canonical_key == concept_def.key
    IN  IF Len(matches) = 1
        THEN LET item == matches[1]
             IN  IF item.value.t # "num"
                 THEN [acc EXCEPT !.warnings = Append(@,
                         [code |-> "INVALID_VALUE_TYPE", concept |-> canonical_key,
                          json_path |-> item.json_path,
                          value_type |-> PyTypeName(item.value)])]
                 ELSE [acc EXCEPT !.conceptos =
                         [k \in DOMAIN acc.conceptos \cup {canonical_key} |->
                            IF k = canonical_key
                            THEN [valor |-> item.value.n, json_path |-> item.json_path]
                            ELSE acc.conceptos[k]]]
        ELSE IF Len(matches) > 1
        THEN [acc EXCEPT !.warnings = Append(@,
                [code |-> "AMBIGUOUS_MATCH", concept |-> canonical_key,
                 count |-> Len(matches),
                 matches |-> [i \in 1..Min({Len(matches), MATCHES_SHOWN}) |->
                                Candidate(matches[i])]])]
        ELSE [acc EXCEPT !.warnings = Append(@,
                [code |-> "MISSING_REQUIRED", concept |-> canonical_key])]

\* the body of the loop of normalize for one concept; impl is "core" for
\* backend/core/normalizer and "flat" for normalizer/
ConceptStep(impl, acc, concept_def, matches) ==
    LET canonical_key == concept_def.key
    IN  IF Len(matches) = 1
        THEN LET item == matches[1]
             IN  IF item.value.t # "num"
                 THEN [acc EXCEPT !.warnings = Append(@,
                         [code |-> "INVALID_VALUE_TYPE", concept |-> canonical_key,
                          json_path |-> item.json_path,
                          value_type |-> PyTypeName(item.value)])]
                 ELSE IF canonical_key \in DOMAIN acc.conceptos
                 THEN [acc EXCEPT !.warnings = Append(@,
                         IF impl = "core"
                         THEN [code |-> "DUPLICATE_CANONICAL_KEY", concept |-> canonical_key]
                         ELSE [code |-> "DUPLICATE_CANONICAL_KEY", detail |-> canonical_key])]
                 ELSE [acc EXCEPT !.conceptos =
                         [k \in DOMAIN acc.conceptos \cup {canonical_key} |->
                            IF k = canonical_key
                            THEN [valor |-> item.value.n, json_path |-> item.json_path]
                            ELSE acc.conceptos[k]]]
        ELSE IF Len(matches) > 1
        THEN [acc EXCEPT !.warnings = Append(@,
                [code |-> "AMBIGUOUS_MATCH", concept |-> canonical_key,
                 count |-> Len(matches),
                 matches |-> [i \in 1..Min({Len(matches), MATCHES_SHOWN}) |->
                                Candidate(matches[i])]])]
        ELSE IF concept_def.obligatorio
        THEN [acc EXCEPT !.warnings = Append(@,
                [code |-> "MISSING_REQUIRED", concept |-> canonical_key])]
        ELSE acc

\* the loop of normalize over dictionary.concepts
RECURSIVE NormalizeFrom(_, _, _, _, _, _)
NormalizeFrom(impl, source_name, indexed, concepts, i, acc) ==
    IF i > Len(concepts) THEN acc
    ELSE LET found == find_matches(indexed, MatchersFor(concepts[i], source_name))
         IN  IF found.raised THEN [acc EXCEPT !.raised = TRUE]
             ELSE NormalizeFrom(impl, source_name, indexed, concepts, i + 1,
                                ConceptStep(impl, acc, concepts[i], found.matched))

EmptyModel(impl, indexed) ==
    [impl |-> impl, raised |-> FALSE, source |-> indexed.source,
     conceptos |-> <<>>, warnings |-> <<>>]

\* BaseNormalizer.normalize: raised = TRUE stands for the ValueError of a
\* foreign IndexedSource or of an unsupported matcher type
normalize_source(impl, source_name, indexed, dictionary) ==
    IF indexed.source # source_name
    THEN [EmptyModel(impl, indexed) EXCEPT !.raised = TRUE]
    ELSE LET out == NormalizeFrom(impl, source_name, indexed, dictionary, 1,
                                  EmptyModel(impl, indexed))
         IN  IF out.raised THEN [EmptyModel(impl, indexed) EXCEPT !.raised = TRUE]
             ELSE out

\* ---- inputs of the normalizer ----
MaxItems == 11

Chars_REM == <<"R", "E", "M">>
Chars_rem == <<"r", "e", "m">>
Chars_351 == <<"3", "5", "1">>
TypeEquals == <<"e", "q", "u", "a", "l", "s">>
TypeRegexRaw == <<"R", "E", "G", "E", "X", " ">>
TypeCodigo == <<"c", "o", "d", "i", "g", "o">>
TypeJsonPath == <<"j", "s", "o", "n", "_", "p", "a", "t", "h">>
TypeFuzzy == <<"f", "u", "z", "z", "y">>

PathOf(i) == <<"$", ToString(i)>>

ItemKinds == <<"upper", "lower", "coded", "text">>

\* an IndexedItem of the given kind at position i of the index
MakeItem(kind, i) ==
    CASE kind = "upper" ->
           [json_path |-> PathOf(i), label |-> Some(Chars_REM), codigo |-> Nothing,
            value |-> Num(i), attributes |-> [tipo |-> "a"]]
      [] kind = "lower" ->
           [json_path |-> PathOf(i), label |-> Some(Chars_rem), codigo |-> Nothing,
            value |-> Num(i), attributes |-> [tipo |-> "a"]]
      [] kind = "coded" ->
           [json_path |-> PathOf(i), label |-> Nothing, codigo |-> Some(Chars_351),
            value |-> Num(i), attributes |-> [tipo |-> "b"]]
      [] OTHER ->
           [json_path |-> PathOf(i), label |-> Some(Chars_REM), codigo |-> Nothing,
            value |-> Str("n/d"), attributes |-> [tipo |-> "a"]]

\* the kinds of an index holding counts[k] items of kind k, kind by kind
RECURSIVE KindsOf(_, _)
KindsOf(counts, k) ==
    IF k > Len(ItemKinds) THEN <<>>
    ELSE [i \in 1..counts[k] |-> ItemKinds[k]] \o KindsOf(counts, k + 1)

ItemsOf(counts) ==
    LET kinds == KindsOf(counts, 1)
    IN  [i \in 1..Len(kinds) |-> MakeItem(kinds[i], i)]

Matcher(type, value, filt, case_sensitive) ==
    [type |-> type, value |-> value, attributes_filter |-> filt,
     case_sensitive |-> case_sensitive]

\* matcher lists of the concept under study
MatcherLists ==
    { <<>>,
      <<Matcher(TypeEquals, Chars_REM, {}, TRUE)>>,
      <<Matcher(TypeEquals, Chars_REM, {}, FALSE)>>,
      <<Matcher(TypeRegexRaw, <<"E", "m">>, {}, TRUE),
        Matcher(TypeEquals, Chars_rem, {}, FALSE)>>,
      <<Matcher(TypeCodigo, Chars_351, {}, TRUE)>>,
      <<Matcher(TypeEquals, Chars_REM, {<<"tipo", "b">>}, TRUE)>>,
      <<Matcher(TypeEquals, Chars_REM, {<<"moneda", "ars">>}, TRUE)>>,
      <<Matcher(TypeEquals, Chars_REM, {}, TRUE),
        Matcher(TypeFuzzy, Chars_REM, {<<"tipo", "b">>}, TRUE)>> }

ConceptDef(key, obligatorio, matchers) ==
    [key |-> key, obligatorio |-> obligatorio, matchers |-> matchers]

\* a dictionary of two concepts; the second one is optional and looks at the
\* first item of the index only
Dictionaries ==
    { << ConceptDef("remuneracion_total", ob, [asiento |-> ml]),
         ConceptDef("aportes_ss", FALSE,
                    [asiento |-> <<Matcher(TypeJsonPath, PathOf(1), {<<"tipo", "a">>}, TRUE)>>,
                     f931 |-> <<>>]) >> :
        ob \in BOOLEAN, ml \in MatcherLists }

\* AsientoNormalizer
NormalizerSource == "asiento"
IndexedSources == {"f931", "asiento"}

InitNormVars ==
    /\ \E counts \in [1..Len(ItemKinds) -> 0..MaxItems], src \in IndexedSources :
          /\ counts[1] + counts[2] + counts[3] + counts[4] <= MaxItems
          /\ nitems = [source |-> src, items |-> ItemsOf(counts)]
    /\ ndict \in Dictionaries
    /\ nres = NoRes

\* normalize() of backend/core/normalizer
NormalizeCore ==
    /\ nres = NoRes
    /\ nres' = normalize_source("core", NormalizerSource, nitems, ndict)
    /\ UNCHANGED <<nitems, ndict>>

\* normalize() of normalizer/
NormalizeFlat ==
    /\ nres = NoRes
    /\ nres' = normalize_source("flat", NormalizerSource, nitems, ndict)
    /\ UNCHANGED <<nitems, ndict>>

(***************************************************************************)
(* Claims about the normalizer                                             *)
(***************************************************************************)
\* positions of the items that satisfy at least one matcher of the list
SatisfyingItems(matchers) ==
    {i \in 1..Len(nitems.items) :
        \E j \in 1..Len(matchers) : matcher_matches(nitems.items[i], matchers[j]) = "yes"}

WarningsFor(code, key) ==
    {w \in 1..Len(nres.warnings) :
        nres.warnings[w].code = code /\ nres.warnings[w].concept = key}

Normalized == nres # NoRes /\ ~nres.raised

\* C8: a concept whose matchers for the source are satisfied by n >= 2
\* items (an item satisfying several matchers counting once) has no entry in
\* conceptos and exactly one AMBIGUOUS_MATCH warning, with count n and
\* min(n, 10) candidates; a concept with an entry has exactly one matching
\* item.
C8_Ambiguous ==
    Normalized =>
        \A c \in 1..Len(ndict) :
            LET key == ndict[c].key
                n == Cardinality(SatisfyingItems(MatchersFor(ndict[c], NormalizerSource)))
            IN  /\ n >= 2 =>
                      /\ key \notin DOMAIN nres.conceptos
                      /\ Cardinality(WarningsFor("AMBIGUOUS_MATCH", key)) = 1
                      /\ \A w \in WarningsFor("AMBIGUOUS_MATCH", key) :
                            /\ nres.warnings[w].count = n
                            /\ Len(nres.warnings[w].matches) = IF n < 10 THEN n ELSE 10
                /\ key \in DOMAIN nres.conceptos => n = 1

\* more than ten items match, some of them through two matchers
C8_Witness ==
    /\ Normalized
    /\ \E c \in 1..Len(ndict) :
          LET ms == MatchersFor(ndict[c], NormalizerSource)
          IN  /\ Cardinality(SatisfyingItems(ms)) > 10
              /\ \E i \in SatisfyingItems(ms) : MatchCount(nitems.items[i], ms, 1) = 2
              /\ \E w \in WarningsFor("AMBIGUOUS_MATCH", ndict[c].key) :
                    /\ nres.warnings[w].count = Cardinality(SatisfyingItems(ms))
                    /\ Len(nres.warnings[w].matches) = 10

\* C9: a concept with zero matching items has no entry in conceptos; it has
\* one MISSING_REQUIRED warning if it is obligatorio and no warning at all
\* otherwise.
C9_MissingRequired ==
    Normalized =>
        \A c \in 1..Len(ndict) :
            SatisfyingItems(MatchersFor(ndict[c], NormalizerSource)) = {} =>
                /\ ndict[c].key \notin DOMAIN nres.conceptos
                /\ ndict[c].obligatorio =>
                      Cardinality(WarningsFor("MISSING_REQUIRED", ndict[c].key)) = 1
                /\ ~ndict[c].obligatorio =>
                      \A w \in 1..Len(nres.warnings) :
                          nres.warnings[w].concept # ndict[c].key

\* a required and an optional concept, both without matching items in a
\* non-empty index
C9_Witness ==
    /\ Normalized
    /\ nitems.items # <<>>
    /\ \E c \in 1..Len(ndict), d \in 1..Len(ndict) :
          /\ ndict[c].obligatorio /\ ~ndict[d].obligatorio
          /\ MatchersFor(ndict[c], NormalizerSource) # <<>>
          /\ SatisfyingItems(MatchersFor(ndict[c], NormalizerSource)) = {}
          /\ SatisfyingItems(MatchersFor(ndict[d], NormalizerSource)) = {}
          /\ WarningsFor("MISSING_REQUIRED", ndict[c].key) # {}
          /\ Len(nres.warnings) = 1

(***************************************************************************)
(* Orchestrator A                                                          *)
(***************************************************************************)
MaxPeriods == 2
OPeriodIds == 1..MaxPeriods

NoPath == [words |-> {}, form |-> "none", a |-> "", b |-> ""]

\* the date stamp that the file names of period i carry
StampOf(i) ==
    CASE i % 3 = 1 -> [form |-> "YYYY-MM", a |-> "2025", b |-> "0" \o ToString(i)]
      [] i % 3 = 2 -> [form |-> "MM_YY", a |-> "0" \o ToString(i), b |-> "25"]
      [] OTHER -> [form |-> "MMYYYY", a |-> "0" \o ToString(i), b |-> "2025"]

\* an upper-cased file name: the keywords it contains and its date stamp
FileName(words, stamp) ==
    [words |-> words, form |-> stamp.form, a |-> stamp.a, b |-> stamp.b]

\* _extract_period; "" is None
extract_period(filename) ==
    CASE filename.form = "YYYY-MM" -> filename.a \o "-" \o filename.b
      [] filename.form = "MM_YY" -> ("20" \o filename.b) \o "-" \o filename.a
      [] filename.form = "MMYYYY" -> filename.b \o "-" \o filename.a
      [] OTHER -> ""

PeriodBundle(periodo) ==
    [periodo |-> periodo, f931 |-> NoPath, borrador |-> NoPath, asiento |-> NoPath,
     status |-> "PENDING", diagnostics |-> <<>>]

BundleIndex(bs, periodo) ==
    IF \E k \in 1..Len(bs) : bs[k].periodo = periodo
    THEN CHOOSE k \in 1..Len(bs) : bs[k].periodo = periodo
    ELSE 0

\* _group_by_period from path i on; bs keeps the insertion order of the dict
RECURSIVE GroupFrom(_, _, _)
GroupFrom(pdf_paths, i, bs) ==
    IF i > Len(pdf_paths) THEN bs
    ELSE LET path == pdf_paths[i]
             periodo == extract_period(path)
             bs1 == IF BundleIndex(bs, periodo) = 0
                    THEN Append(bs, PeriodBundle(periodo)) ELSE bs
             k == BundleIndex(bs1, periodo)
         IN  IF periodo = "" THEN GroupFrom(pdf_paths, i + 1, bs)
             ELSE IF "F931" \in path.words
             THEN GroupFrom(pdf_paths, i + 1, [bs1 EXCEPT ![k].f931 = path])
             ELSE IF "BORRADOR" \in path.words
             THEN GroupFrom(pdf_paths, i + 1, [bs1 EXCEPT ![k].borrador = path])
             ELSE IF "ASIENTO" \in path.words
             THEN GroupFrom(pdf_paths, i + 1, [bs1 EXCEPT ![k].asiento = path])
             ELSE GroupFrom(pdf_paths, i + 1, bs1)

group_by_period(pdf_paths) == GroupFrom(pdf_paths, 1, <<>>)

\* variant of the validation that does not look at the asiento
MissingDocumentsNoAsiento(bundle) ==
    (IF bundle.f931 = NoPath THEN <<"F931">> ELSE <<>>)
    \o (IF bundle.borrador = NoPath THEN <<"BORRADOR">> ELSE <<>>)

\* the list `missing` of _validate_bundle
MissingDocuments(bundle) ==
    (IF bundle.f931 = NoPath THEN <<"F931">> ELSE <<>>)
    \o (IF bundle.borrador = NoPath THEN <<"BORRADOR">> ELSE <<>>)
    \o (IF bundle.asiento = NoPath THEN <<"ASIENTO">> ELSE <<>>)

\* diagnostics[key] = value
SetDiag(diagnostics, key, value) ==
    [k \in DOMAIN diagnostics \cup {key} |-> IF k = key THEN value ELSE diagnostics[k]]

\* _validate_bundle
validate_bundle(bundle) ==
    IF MissingDocuments(bundle) # <<>>
    THEN [bundle EXCEPT !.status = "BLOCKED",
                        !.diagnostics = SetDiag(@, "missing_documents",
                                                MissingDocuments(bundle))]
    ELSE bundle

\* files of the output directory
Consolidated(periodo) == <<"consolidated", periodo>>
Manifest(periodo) == <<"sources_manifest", periodo>>
Intermediate(stage) == <<stage, "">>

\* ---- inputs ----
\* the sets of files a period can come with
FileSets ==
    (SUBSET {{"F931"}, {"BORRADOR"}, {"ASIENTO"}})
    \cup {{{"F931", "BORRADOR"}, {"ASIENTO"}}, {{"NOTA"}}}

FileOrder == <<{"NOTA"}, {"F931", "BORRADOR"}, {"ASIENTO"}, {"BORRADOR"}, {"F931"}>>

\* the paths of period i, in directory order
PathsOf(i, fset) ==
    LET present == SelectSeq(FileOrder, LAMBDA w : w \in fset)
    IN  [k \in 1..Len(present) |-> FileName(present[k], StampOf(i))]

RECURSIVE PathsFrom(_, _, _)
PathsFrom(choice, i, descending) ==
    IF i > MaxPeriods THEN <<>>
    ELSE IF descending
    THEN PathsFrom(choice, i + 1, descending) \o PathsOf(i, choice[i])
    ELSE PathsOf(i, choice[i]) \o PathsFrom(choice, i + 1, descending)

\* the PDF lists handed to run(): one file without a period and the files
\* of each period
PdfLists ==
    {<<FileName({"F931"}, NoPath)>> \o PathsFrom(choice, 1, descending) :
        choice \in [OPeriodIds -> FileSets], descending \in BOOLEAN}

InitOrchVars ==
    /\ \E pdf_paths \in PdfLists : bundles = group_by_period(pdf_paths)
    /\ opc = "validate"
    /\ ocur = 1
    /\ odone = {}
    /\ outdir \in {{}, {Intermediate("parsed")}}
    /\ tmpdirs = {}
    /\ stages = <<>>

Running == ocur <= Len(bundles)
Cur == bundles[ocur]
Stage(name) == stages' = Append(stages, <<Cur.periodo, name>>)

\* `continue` / end of the loop body
NextBundle ==
    /\ ocur' = ocur + 1
    /\ odone' = odone \cup {Cur.periodo}
    /\ opc' = "validate"

\* variant of run() without the try/except: the exception leaves run() and
\* the loop over the bundles ends there
PipelineRaisesUncaught(msg) ==
    /\ opc' = "done"
    /\ UNCHANGED <<bundles, ocur, odone>>

\* an exception inside _execute_pipeline reaches the handler of run()
PipelineRaises(msg) ==
    /\ bundles' = [bundles EXCEPT ![ocur].status = "BLOCKED",
                                  ![ocur].diagnostics = SetDiag(@, "pipeline_error", msg)]
    /\ NextBundle

\* run(): validation of the next bundle
OValidate ==
    /\ opc = "validate" /\ Running
    /\ bundles' = [bundles EXCEPT ![ocur] = validate_bundle(Cur)]
    /\ IF bundles'[ocur].status = "BLOCKED"
       THEN NextBundle
       ELSE opc' = "clean" /\ UNCHANGED <<ocur, odone>>
    /\ UNCHANGED <<outdir, tmpdirs, stages>>

\* _clean_output_jsons
OClean ==
    /\ opc = "clean"
    /\ outdir' = {}
    /\ Stage("clean")
    /\ opc' = "mkdir"
    /\ UNCHANGED <<bundles, ocur, odone, tmpdirs>>

\* rmtree of a leftover scratch directory, then mkdir
OMkdir ==
    /\ opc = "mkdir"
    /\ tmpdirs' = tmpdirs \cup {Cur.periodo}
    /\ Stage("staging")
    /\ opc' = "copy"
    /\ UNCHANGED <<bundles, ocur, odone, outdir>>

\* the three shutil.copy calls; a copy raises when its path is None or the
\* file cannot be read
OCopy ==
    /\ opc = "copy"
    /\ \E readable \in BOOLEAN :
          IF readable /\ NoPath \notin {Cur.f931, Cur.borrador, Cur.asiento}
          THEN opc' = "parser" /\ UNCHANGED <<bundles, ocur, odone>>
          ELSE PipelineRaises("copy")
    /\ UNCHANGED <<outdir, tmpdirs, stages>>

\* a stage subprocess: it writes its JSON and exits zero, or exits non-zero
RunStage(pc, name, next) ==
    /\ opc = pc
    /\ Stage(name)
    /\ \E ok \in BOOLEAN :
          IF ok
          THEN /\ outdir' = outdir \cup {Intermediate(name)}
               /\ opc' = next
               /\ UNCHANGED <<bundles, ocur, odone>>
          ELSE /\ PipelineRaises(name)
               /\ UNCHANGED outdir
    /\ UNCHANGED tmpdirs

ORunParser == RunStage("parser", "parser", "normalizer")
ORunNormalizer == RunStage("normalizer", "normalizer", "consolidator")

\* run_consolidator.py: it exits non-zero, or writes the consolidated file
\* of the period it detects, or writes none
ORunConsolidator ==
    /\ opc = "consolidator"
    /\ Stage("consolidator")
    /\ \E outcome \in {"fails", "writes", "nothing"} :
          CASE outcome = "fails" -> PipelineRaises("consolidator") /\ UNCHANGED outdir
            [] outcome = "writes" ->
                 /\ outdir' = outdir \cup {Consolidated(Cur.periodo)}
                 /\ opc' = "check"
                 /\ UNCHANGED <<bundles, ocur, odone>>
            [] OTHER -> opc' = "check" /\ UNCHANGED <<bundles, ocur, odone, outdir>>
    /\ UNCHANGED tmpdirs

\* the check that consolidated_{periodo}.json exists
OCheckConsolidated ==
    /\ opc = "check"
    /\ IF Consolidated(Cur.periodo) \in outdir
       THEN opc' = "manifest" /\ UNCHANGED <<bundles, ocur, odone>>
       ELSE PipelineRaises("No se genero consolidated")
    /\ UNCHANGED <<outdir, tmpdirs, stages>>

\* manifest, rmtree of the scratch directory, status OK
OFinish ==
    /\ opc = "manifest"
    /\ outdir' = outdir \cup {Manifest(Cur.periodo)}
    /\ tmpdirs' = tmpdirs \ {Cur.periodo}
    /\ bundles' = [bundles EXCEPT ![ocur].status = "OK"]
    /\ NextBundle
    /\ UNCHANGED stages

\* run() returns
OReturn ==
    /\ opc = "validate" /\ ~Running
    /\ opc' = "done"
    /\ UNCHANGED <<bundles, ocur, odone, outdir, tmpdirs, stages>>

(***************************************************************************)
(* Claims about Orchestrator A                                             *)
(***************************************************************************)
Lacking(bundle) == NoPath \in {bundle.f931, bundle.borrador, bundle.asiento}

StagesOf(periodo) == {k \in 1..Len(stages) : stages[k][1] = periodo}

ExpectedMissing(bundle) ==
    SelectSeq(<<"F931", "BORRADOR", "ASIENTO">>,
              LAMBDA kind : CASE kind = "F931" -> bundle.f931 = NoPath
                              [] kind = "BORRADOR" -> bundle.borrador = NoPath
                              [] OTHER -> bundle.asiento = NoPath)

\* C10: a bundle lacking any of its three documents never has a pipeline
\* stage executed, and when run() has returned it is BLOCKED with
\* missing_documents equal to the missing kinds in the order F931, BORRADOR,
\* ASIENTO, while every bundle of the run with all three documents has been
\* through the pipeline.
C10_BundleValidation ==
    \A k \in 1..Len(bundles) :
        /\ Lacking(bundles[k]) =>
              /\ StagesOf(bundles[k].periodo) = {}
              /\ opc = "done" =>
                    /\ bundles[k].status = "BLOCKED"
                    /\ DOMAIN bundles[k].diagnostics = {"missing_documents"}
                    /\ bundles[k].diagnostics["missing_documents"] = ExpectedMissing(bundles[k])
        /\ (~Lacking(bundles[k]) /\ opc = "done") =>
              /\ StagesOf(bundles[k].periodo) # {}
              /\ bundles[k].status \in {"OK", "BLOCKED"}
              /\ "missing_documents" \notin DOMAIN bundles[k].diagnostics

\* run() has returned; a bundle without asiento came before a complete
\* bundle that ended OK
C10_Witness ==
    /\ opc = "done"
    /\ \E j \in 1..Len(bundles), k \in 1..Len(bundles) :
          /\ j < k
          /\ bundles[j].diagnostics = [missing_documents |-> <<"ASIENTO">>]
          /\ bundles[k].status = "OK"

PipelinePcs == {"clean", "mkdir", "copy", "parser", "normalizer", "consolidator", "check", "manifest"}
PipelineStages == {"clean", "staging", "parser", "normalizer", "consolidator"}

\* the step leaves _execute_pipeline before its last statement
PipelineAborts == opc \in PipelinePcs \ {"manifest"} /\ opc' \notin PipelinePcs

\* C11: a step of a bundle's pipeline that raises (a copy fails, a stage
\* subprocess exits non-zero, the consolidated file is missing) leaves that
\* bundle BLOCKED with pipeline_error set, leaves the other bundles as they
\* are and run() goes on with the next bundle; a bundle becomes OK only at
\* the end of its own pipeline, after every stage has run; when run() has
\* returned no bundle is PENDING and every complete bundle went through the
\* pipeline.
C11_FailureIsolation ==
    /\ [](opc = "done" =>
            \A k \in 1..Len(bundles) :
                /\ bundles[k].status \in {"OK", "BLOCKED"}
                /\ ~Lacking(bundles[k]) => StagesOf(bundles[k].periodo) # {}
                /\ bundles[k].status = "OK" =>
                      "pipeline_error" \notin DOMAIN bundles[k].diagnostics)
    /\ [][/\ PipelineAborts =>
                /\ opc' = "validate" /\ ocur' = ocur + 1
                /\ bundles'[ocur].status = "BLOCKED"
                /\ "pipeline_error" \in DOMAIN bundles'[ocur].diagnostics
                /\ \A k \in 1..Len(bundles) : k # ocur => bundles'[k] = bundles[k]
          /\ \A k \in 1..Len(bundles) :
                (bundles'[k].status = "OK" /\ bundles[k].status # "OK") =>
                    /\ k = ocur /\ opc = "manifest"
                    /\ {stages[i][2] : i \in StagesOf(bundles[k].periodo)} = PipelineStages
                    /\ "pipeline_error" \notin DOMAIN bundles[k].diagnostics]_vars

\* run() has returned: the pipeline of a bundle raised and a bundle after it
\* ended OK
C11_Witness ==
    /\ opc = "done"
    /\ \E j \in 1..Len(bundles), k \in 1..Len(bundles) :
          /\ j < k
          /\ "pipeline_error" \in DOMAIN bundles[j].diagnostics
          /\ bundles[j].status = "BLOCKED"
          /\ bundles[k].status = "OK"

\* C12: when run() has returned, consolidated_{period}.json and
\* sources_manifest_{period}.json of every bundle with status OK are in the
\* output directory: a later bundle does not delete what an earlier bundle
\* produced.
C12_OutputsKept ==
    opc = "done" =>
        \A k \in 1..Len(bundles) :
            bundles[k].status = "OK" =>
                /\ Consolidated(bundles[k].periodo) \in outdir
                /\ Manifest(bundles[k].periodo) \in outdir


(***************************************************************************)
(* Idle values of the subsystems a specification does not exercise         *)
(***************************************************************************)
IdleConsolVars == csources = <<>> /\ cres = NoRes
IdleNormVars == nitems = <<>> /\ ndict = <<>> /\ nres = NoRes
IdleOrchVars ==
    /\ bundles = <<>>
    /\ opc = "off"
    /\ ocur = 0
    /\ odone = {}
    /\ outdir = {}
    /\ tmpdirs = {}
    /\ stages = <<>>

Off == [off |-> TRUE]
IdleApi == api = Off
IdlePipeline == pp = Off
IdleParsers == pr = Off
IdleNumber == nn = Off
IdleOrchB == orchb = Off
IdleBorrador == bdoc = Off
IdleOrder == ord = Off
IdleCli == cli = Off
IdleAsientoMeta == am = Off
IdleConcurrent == cc = Off
IdleOrchBExcel == obx = Off
IdleResolve == agr = Off
IdleFVars ==
    /\ IdleOrder /\ IdleCli /\ IdleAsientoMeta /\ IdleConcurrent /\ IdleOrchBExcel
    /\ IdleResolve
IdleExtVars ==
    /\ IdleApi /\ IdlePipeline /\ IdleParsers /\ IdleNumber /\ IdleOrchB /\ IdleBorrador
    /\ IdleFVars

(***************************************************************************)
(* Specification of the core Excel writer                                  *)
(***************************************************************************)
InitExcel ==
    /\ sys = "excel"
    /\ InitExcelVars
    /\ IdleConsolVars /\ IdleNormVars /\ IdleOrchVars /\ IdleExtVars

NextExcel ==
    /\ \/ \E S \in SUBSET Periods : CoreBuildYearOpen(S)
       \/ CoreBuildYearEmpty
       \/ \E p \in Periods : BuildFromTemplate(p)
       \/ \E p \in Periods : UpdateExisting(p)
       \/ UpdateMissing
       \/ WriteNextPeriod
       \/ WritePeriodRaises
       \/ SaveWorkbook
    /\ UNCHANGED <<sys, cvars, nvars, ovars, evars, fvars>>

SpecExcel == InitExcel /\ [][NextExcel]_vars

(***************************************************************************)
(* Specification of the flat-layout batch loader                           *)
(***************************************************************************)
InitFlat ==
    /\ sys = "flat"
    /\ InitExcelVars
    /\ IdleConsolVars /\ IdleNormVars /\ IdleOrchVars /\ IdleExtVars

NextFlat ==
    /\ \/ \E S \in SUBSET Periods : FlatBuildYearOpen(S)
       \/ WriteNextPeriod
       \/ WritePeriodRaises
       \/ SaveWorkbook
    /\ UNCHANGED <<sys, cvars, nvars, ovars, evars, fvars>>

SpecFlat == InitFlat /\ [][NextFlat]_vars

(***************************************************************************)
(* Specification of the consolidators                                      *)
(***************************************************************************)
InitConsol ==
    /\ sys = "consol"
    /\ InitConsolVars
    /\ IdleExcelVars /\ IdleNormVars /\ IdleOrchVars /\ IdleExtVars

NextConsol ==
    /\ \/ ConsolidateV1
       \/ ConsolidateV2
    /\ UNCHANGED <<sys, xvars, nvars, ovars, evars, fvars>>

SpecConsol == InitConsol /\ [][NextConsol]_vars

(***************************************************************************)
(* Specification of the normalizer                                         *)
(***************************************************************************)
InitNorm ==
    /\ sys = "norm"
    /\ InitNormVars
    /\ IdleExcelVars /\ IdleConsolVars /\ IdleOrchVars /\ IdleExtVars

NextNorm ==
    /\ \/ NormalizeCore
       \/ NormalizeFlat
    /\ UNCHANGED <<sys, xvars, cvars, ovars, evars, fvars>>

SpecNorm == InitNorm /\ [][NextNorm]_vars

(***************************************************************************)
(* Specification of Orchestrator A                                         *)
(***************************************************************************)
InitOrchA ==
    /\ sys = "orchA"
    /\ InitOrchVars
    /\ IdleExcelVars /\ IdleConsolVars /\ IdleNormVars /\ IdleExtVars

NextOrchA ==
    /\ \/ OValidate
       \/ OClean
       \/ OMkdir
       \/ OCopy
       \/ ORunParser
       \/ ORunNormalizer
       \/ ORunConsolidator
       \/ OCheckConsolidated
       \/ OFinish
       \/ OReturn
    /\ UNCHANGED <<sys, xvars, cvars, nvars, evars, fvars>>

SpecOrchA == InitOrchA /\ [][NextOrchA]_vars

(***************************************************************************)
(* HTTP API: POST /process (app.py)                                        *)
(***************************************************************************)
MaxRequests == 2

\* names of the uploaded PDFs of a request; the optional workbook upload
UploadNames == {"f931.pdf", "borrador.pdf"}
ExcelUpload == "px.xlsx"

\* what the pipeline does with the saved PDFs once its body runs
PipelineEnvs == {"ok", "raises", "nofile"}

Requests ==
    [files : SUBSET UploadNames, excel : BOOLEAN, env : PipelineEnvs]

\* the parameters process_period declares
PROCESS_PERIOD_PARAMS == {"pdf_paths", "period", "template_path", "output_dir"}

\* the keyword arguments process_endpoint passes
EndpointKwargs == {"pdf_paths", "period", "existing_excel"}

\* Python's binding of a keyword call to process_period: an unexpected
\* keyword raises TypeError before the body runs
CallProcessPeriod(kwargs, env) ==
    IF ~(kwargs \subseteq PROCESS_PERIOD_PARAMS)
    THEN [out |-> "raise", exc |-> "TypeError"]
    ELSE IF env = "raises"
    THEN [out |-> "raise", exc |-> "ValueError"]
    ELSE [out |-> "return", exc |-> IF env = "ok" THEN "exists" ELSE "absent"]

NoCall == {}

\* mutant: the except branches re-raise without removing the directory
HandlerOutcomeNoRmtree(req) ==
    IF req.files = {}
    THEN [status |-> 400, body |-> "detail", mkdtemp |-> FALSE, saved |-> {},
          call |-> NoCall, rmtree |-> FALSE, background |-> FALSE]
    ELSE LET saved == req.files \cup (IF req.excel THEN {ExcelUpload} ELSE {})
             r == CallProcessPeriod(EndpointKwargs, req.env)
         IN  IF r.out = "return" /\ r.exc = "exists"
             THEN [status |-> 200, body |-> "xlsx", mkdtemp |-> TRUE, saved |-> saved,
                   call |-> EndpointKwargs, rmtree |-> FALSE, background |-> TRUE]
             ELSE [status |-> 500, body |-> "detail", mkdtemp |-> TRUE, saved |-> saved,
                   call |-> EndpointKwargs, rmtree |-> FALSE, background |-> FALSE]

\* process_endpoint from its first line to the response or HTTPException it
\* hands to the framework
HandlerOutcome(req) ==
    IF req.files = {}
    THEN [status |-> 400, body |-> "detail", mkdtemp |-> FALSE, saved |-> {},
          call |-> NoCall, rmtree |-> FALSE, background |-> FALSE]
    ELSE LET saved == req.files \cup (IF req.excel THEN {ExcelUpload} ELSE {})
             r == CallProcessPeriod(EndpointKwargs, req.env)
         IN  IF r.out = "return" /\ r.exc = "exists"
             THEN [status |-> 200, body |-> "xlsx", mkdtemp |-> TRUE, saved |-> saved,
                   call |-> EndpointKwargs, rmtree |-> FALSE, background |-> TRUE]
             ELSE \* HTTPException(500) of the output check, or any other exception
                  [status |-> 500, body |-> "detail", mkdtemp |-> TRUE, saved |-> saved,
                   call |-> EndpointKwargs, rmtree |-> TRUE, background |-> FALSE]

NoResp == [noresp |-> TRUE]

InitApiVars ==
    api = [pc |-> "idle", n |-> 0, tmp |-> {}, req |-> NoResp, resp |-> NoResp,
           log |-> <<>>]

\* a request arrives and process_endpoint runs to its return or raise
ProcessEndpoint(req) ==
    /\ api.pc = "idle"
    /\ api.n < MaxRequests
    /\ LET h == HandlerOutcome(req)
           dir == api.n + 1
       IN  api' = [api EXCEPT !.pc = "responding",
                              !.n = dir,
                              !.tmp = IF h.mkdtemp /\ ~h.rmtree THEN @ \cup {dir} ELSE @,
                              !.req = req,
                              !.resp = h]

\* the framework sends the response and afterwards runs its background task
\* (cleanup_temp_dir)
ServerCompletes ==
    /\ api.pc = "responding"
    /\ api' = [api EXCEPT !.pc = "idle",
                          !.tmp = IF api.resp.background THEN @ \ {api.n} ELSE @,
                          !.req = NoResp,
                          !.resp = NoResp,
                          !.log = Append(@, [req |-> api.req, resp |-> api.resp,
                                             dirAtDelivery |-> api.n \in api.tmp])]

\* C13: every request with at least one file calls the pipeline with the
\* saved PDF paths and the fixed period only, the workbook upload being saved
\* but not passed, and is answered 200 with the spreadsheet whenever the
\* pipeline can process the PDFs
C13_SuccessPath ==
    \A i \in 1..Len(api.log) :
        LET e == api.log[i]
        IN  e.req.files # {} =>
                /\ e.resp.call = {"pdf_paths", "period"}
                /\ e.req.excel => ExcelUpload \in e.resp.saved
                /\ e.req.env = "ok" => (e.resp.status = 200 /\ e.resp.body = "xlsx")

InitApi ==
    /\ sys = "api"
    /\ InitApiVars
    /\ IdleExcelVars /\ IdleConsolVars /\ IdleNormVars /\ IdleOrchVars
    /\ IdlePipeline /\ IdleParsers /\ IdleNumber /\ IdleOrchB /\ IdleBorrador
    /\ IdleFVars

NextApi ==
    /\ \/ \E req \in Requests : ProcessEndpoint(req)
       \/ ServerCompletes
    /\ UNCHANGED <<sys, xvars, cvars, nvars, ovars, pp, pr, nn, orchb, bdoc, fvars>>

SpecApi == InitApi /\ [][NextApi]_vars

(***************************************************************************)
(* process_period (backend/core/pipeline.py)                               *)
(***************************************************************************)
MaxPdfs == 2

IsoJune == <<"2", "0", "2", "5", "-", "0", "6">>
PeriodArgs == {IsoMay, IsoJune}

\* file names of the PDFs handed to process_period
PdfNames ==
    { <<"F", "9", "3", "1">>, <<"b", "o", "r", "r", "a">>,
      <<"a", "s", "i", "e", "n", "t", "o">>, <<"x">> }

\* a PDF: its file name and the metadata its parser extracts from it
PdfInputs == [name : PdfNames, md : RawMetas]

PdfLists2 ==
    {<<>>} \cup UNION {[1..k -> PdfInputs] : k \in 1..MaxPdfs}

\* _detect_type: the document type read off the lower-cased file name
detect_type(name) ==
    LET n == Lower(name)
    IN  IF Contains(<<"f", "9", "3", "1">>, n) \/ Contains(<<"9", "3", "1">>, n)
        THEN "f931"
        ELSE IF Contains(<<"b", "o", "r", "r", "a", "d", "o", "r">>, n)
                \/ Contains(<<"b", "o", "r", "r", "a">>, n)
        THEN "borrador"
        ELSE IF Contains(<<"a", "s", "i", "e", "n", "t", "o">>, n)
        THEN "asiento"
        ELSE "none"

\* _run_parsers: {doc_type: parser_json}, in insertion order; a later PDF
\* of a type replaces the document of an earlier one
RECURSIVE RunParsersFrom(_, _, _)
RunParsersFrom(pdfs, i, results) ==
    IF i > Len(pdfs) THEN results
    ELSE LET doc_type == detect_type(pdfs[i].name)
             at == {j \in 1..Len(results) : results[j].source = doc_type}
             doc == [source |-> doc_type, metadata |-> pdfs[i].md]
         IN  IF doc_type = "none" THEN RunParsersFrom(pdfs, i + 1, results)
             ELSE IF at = {} THEN RunParsersFrom(pdfs, i + 1, Append(results, doc))
             ELSE RunParsersFrom(pdfs, i + 1,
                                 [results EXCEPT ![CHOOSE j \in at : TRUE] = doc])

run_parsers(pdfs) == RunParsersFrom(pdfs, 1, <<>>)

\* _run_normalizers: one canonical model per parsed document, kept together
\* with the raw document it came from
run_normalizers(parsed) ==
    [i \in 1..Len(parsed) |->
        SourceInput(parsed[i].source, parsed[i].metadata,
                    [k \in ModelKeys |-> "number"])]

\* _run_consolidation: ConsolidatorV2(...).consolidate() as a dict
run_consolidation(canonicals) ==
    [schema_version |-> "2.0.0",
     periodo_iso |-> resolve_period_iso(canonicals),
     canonical |-> build_canonical_block(canonicals, ConceptKeys,
                                         resolve_period_iso(canonicals))]

\* str.split(c)
RECURSIVE SplitOn(_, _)
SplitOn(x, c) ==
    IF \A i \in 1..Len(x) : x[i] # c THEN <<x>>
    ELSE LET k == Min({i \in 1..Len(x) : x[i] = c})
         IN  <<SubSeq(x, 1, k - 1)>> \o SplitOn(SubSeq(x, k + 1, Len(x)), c)

DigitValue(c) ==
    CASE c = "0" -> 0 [] c = "1" -> 1 [] c = "2" -> 2 [] c = "3" -> 3 [] c = "4" -> 4
      [] c = "5" -> 5 [] c = "6" -> 6 [] c = "7" -> 7 [] c = "8" -> 8 [] c = "9" -> 9

\* int(x) of a string of decimal digits
RECURSIVE IntOfDigits(_)
IntOfDigits(x) ==
    IF Len(x) = 0 THEN 0
    ELSE 10 * IntOfDigits(SubSeq(x, 1, Len(x) - 1)) + DigitValue(x[Len(x)])

\* ExcelLoader.__init__: year and month of data["periodo_iso"]; ok = FALSE
\* when the unpacking or int() raises ValueError
LoaderPeriod(periodo) ==
    LET parts == SplitOn(periodo, "-")
    IN  IF Len(parts) = 2
           /\ \A i \in 1..2 : Len(parts[i]) > 0 /\ \A j \in 1..Len(parts[i]) : IsDigit(parts[i][j])
        THEN [ok |-> TRUE, year |-> IntOfDigits(parts[1]), month |-> IntOfDigits(parts[2])]
        ELSE [ok |-> FALSE, year |-> 0, month |-> 0]

InitPipelineVars ==
    \E period \in PeriodArgs, template \in BOOLEAN, pdfs \in PdfLists2 :
        pp = [pc |-> "start", period |-> period, template |-> template, pdfs |-> pdfs,
              steps |-> <<>>, files |-> {}, parsed |-> <<>>, canonicals |-> <<>>,
              outcome |-> "running"]

\* mutant: the output directory is made before the template is looked for
PPStartMkdirFirst ==
    /\ pp.pc = "start"
    /\ IF ~pp.template
       THEN pp' = [pp EXCEPT !.pc = "raised", !.outcome = "FileNotFoundError",
                             !.steps = Append(@, "mkdir")]
       ELSE pp' = [pp EXCEPT !.pc = "parse", !.steps = Append(@, "mkdir")]

\* process_period up to the creation of the output directory
PPStart ==
    /\ pp.pc = "start"
    /\ IF ~pp.template
       THEN pp' = [pp EXCEPT !.pc = "raised", !.outcome = "FileNotFoundError"]
       ELSE pp' = [pp EXCEPT !.pc = "parse", !.steps = Append(@, "mkdir")]

\* step 1: parse
PPParse ==
    /\ pp.pc = "parse"
    /\ LET parsed == run_parsers(pp.pdfs)
       IN  IF parsed = <<>>
           THEN pp' = [pp EXCEPT !.pc = "raised", !.outcome = "ValueError",
                                 !.steps = Append(@, "parse")]
           ELSE pp' = [pp EXCEPT !.pc = "normalize", !.parsed = parsed,
                                 !.steps = Append(@, "parse")]

\* step 2: normalize
PPNormalize ==
    /\ pp.pc = "normalize"
    /\ LET canonicals == run_normalizers(pp.parsed)
       IN  IF canonicals = <<>>
           THEN pp' = [pp EXCEPT !.pc = "raised", !.outcome = "ValueError",
                                 !.steps = Append(@, "normalize")]
           ELSE pp' = [pp EXCEPT !.pc = "consolidate", !.canonicals = canonicals,
                                 !.steps = Append(@, "normalize")]

\* step 3: consolidate and persist consolidated_{period}.json
PPConsolidate ==
    /\ pp.pc = "consolidate"
    /\ pp' = [pp EXCEPT !.pc = "excel",
                        !.steps = Append(@, "consolidate"),
                        !.files = @ \cup {[kind |-> "consolidated", name |-> pp.period,
                                           data |-> run_consolidation(pp.canonicals)]}]

\* step 4: _run_excel writes Px_Laboral_{period}.xlsx in the month columns of
\* the consolidated periodo_iso
PPExcel ==
    /\ pp.pc = "excel"
    /\ LET lp == LoaderPeriod(run_consolidation(pp.canonicals).periodo_iso)
       IN  IF ~lp.ok
           THEN pp' = [pp EXCEPT !.pc = "raised", !.outcome = "ValueError",
                                 !.steps = Append(@, "excel")]
           ELSE pp' = [pp EXCEPT !.pc = "returned", !.outcome = "returned",
                                 !.steps = Append(@, "excel"),
                                 !.files = @ \cup {[kind |-> "xlsx", name |-> pp.period,
                                                    data |-> [year |-> lp.year,
                                                              month |-> lp.month]]}]

\* C15: with a missing template process_period raises before anything else:
\* no output directory is made, no PDF parsed, no file written
C15_MissingTemplate ==
    ~pp.template =>
        /\ pp.pc \in {"start", "raised"}
        /\ pp.steps = <<>>
        /\ pp.files = {}
        /\ pp.parsed = <<>>
        /\ pp.pc = "raised" => pp.outcome = "FileNotFoundError"

\* the call was given PDFs it could parse and has raised for its template
C15_Witness ==
    /\ ~pp.template
    /\ pp.pc = "raised"
    /\ pp.outcome = "FileNotFoundError"
    /\ run_parsers(pp.pdfs) # <<>>

\* C16: after a successful process_period(pdf_paths, period) the file
\* consolidated_{period}.json has schema_version "2.0.0" and periodo_iso equal
\* to period, and Px_Laboral_{period}.xlsx is written in the month columns of
\* that period
C16_PeriodArgument ==
    pp.pc = "returned" =>
        /\ \E f \in pp.files :
              /\ f.kind = "consolidated" /\ f.name = pp.period
              /\ f.data.schema_version = "2.0.0"
              /\ f.data.periodo_iso = pp.period
        /\ \E f \in pp.files :
              /\ f.kind = "xlsx" /\ f.name = pp.period
              /\ f.data.year = LoaderPeriod(pp.period).year
              /\ f.data.month = LoaderPeriod(pp.period).month

(***************************************************************************)
(* Specification of process_period                                         *)
(***************************************************************************)
InitPipeline ==
    /\ sys = "pipeline"
    /\ InitPipelineVars
    /\ IdleExcelVars /\ IdleConsolVars /\ IdleNormVars /\ IdleOrchVars
    /\ IdleApi /\ IdleParsers /\ IdleNumber /\ IdleOrchB /\ IdleBorrador
    /\ IdleFVars

NextPipeline ==
    /\ \/ PPStart
       \/ PPParse
       \/ PPNormalize
       \/ PPConsolidate
       \/ PPExcel
    /\ UNCHANGED <<sys, xvars, cvars, nvars, ovars, api, pr, nn, orchb, bdoc, fvars>>

SpecPipeline == InitPipeline /\ [][NextPipeline]_vars

(***************************************************************************)
(* The parsers: parse(pdf_path) of F931, Borrador and Asiento              *)
(***************************************************************************)
PARSER_SCHEMA_VERSION == "1.0.0"

ParserNames == {"f931", "borrador", "asiento"}

\* the guarded section extractions of each parse(), in execution order
ParserSections(parser) ==
    CASE parser = "f931" ->
            <<"campos_principales", "suma_remuneraciones", "seccion_I_seg_social",
              "seccion_II_obras_sociales", "seccion_III_retenciones", "seccion_VI_lrt",
              "seccion_VII_seguro_vida", "seccion_VIII_montos", "conceptos_dinamicos">>
      [] parser = "borrador" ->
            <<"campos_principales", "remuneraciones_imponibles", "totales_generales",
              "contribuciones_seguridad_social", "aportes_seguridad_social",
              "obra_social", "conceptos_dinamicos">>
      [] parser = "asiento" ->
            <<"campos_principales", "debe_haber", "conceptos_dinamicos">>

SectionSet(parser) ==
    {ParserSections(parser)[i] : i \in 1..Len(ParserSections(parser))}

\* a PDF file as the two text-extraction libraries and the section
\* extractors see it: which of them raise on it
PdfFiles(parser) ==
    [plumber : {"ok", "raises"}, mupdf : {"ok", "raises"},
     failing : SUBSET SectionSet(parser)]

\* extract_text: pdfplumber, and pymupdf when pdfplumber raised; an
\* exception of pymupdf is not caught
extract_text(pdf) ==
    IF pdf.plumber = "ok" THEN "lines"
    ELSE IF pdf.mupdf = "ok" THEN "lines"
    ELSE "raise"

\* parse(pdf_path): text extraction, then one try / except per section
ParseDocument(parser, pdf) ==
    IF extract_text(pdf) = "raise"
    THEN [kind |-> "raised"]
    ELSE [kind |-> "returned",
          schema_version |-> PARSER_SCHEMA_VERSION,
          extracted |-> [sec \in SectionSet(parser) |->
                            IF sec \in pdf.failing THEN "empty" ELSE "filled"]]

InitParserVars ==
    \E parser \in ParserNames :
        \E pdf \in PdfFiles(parser) :
            pr = [pc |-> "call", parser |-> parser, pdf |-> pdf, out |-> NoRes]

ParseF931 ==
    /\ pr.pc = "call" /\ pr.parser = "f931"
    /\ pr' = [pr EXCEPT !.pc = "done", !.out = ParseDocument("f931", pr.pdf)]

ParseBorrador ==
    /\ pr.pc = "call" /\ pr.parser = "borrador"
    /\ pr' = [pr EXCEPT !.pc = "done", !.out = ParseDocument("borrador", pr.pdf)]

ParseAsiento ==
    /\ pr.pc = "call" /\ pr.parser = "asiento"
    /\ pr' = [pr EXCEPT !.pc = "done", !.out = ParseDocument("asiento", pr.pdf)]

\* C17: parse never raises: whatever step fails, it returns a document with
\* schema_version "1.0.0" in which the failed sections are empty
C17_ParseNeverRaises ==
    pr.pc = "done" =>
        /\ pr.out.kind = "returned"
        /\ pr.out.schema_version = "1.0.0"
        /\ \A sec \in pr.pdf.failing : pr.out.extracted[sec] = "empty"

(***************************************************************************)
(* Specification of the parsers                                            *)
(***************************************************************************)
InitParsers ==
    /\ sys = "parsers"
    /\ InitParserVars
    /\ IdleExcelVars /\ IdleConsolVars /\ IdleNormVars /\ IdleOrchVars
    /\ IdleApi /\ IdlePipeline /\ IdleNumber /\ IdleOrchB /\ IdleBorrador
    /\ IdleFVars

NextParsers ==
    /\ \/ ParseF931
       \/ ParseBorrador
       \/ ParseAsiento
    /\ UNCHANGED <<sys, xvars, cvars, nvars, ovars, api, pp, nn, orchb, bdoc, fvars>>

SpecParsers == InitParsers /\ [][NextParsers]_vars

(***************************************************************************)
(* normalize_number (utils/pdf_text.py): Argentine amounts                 *)
(***************************************************************************)
MaxStrLen == 4

\* the result: None, or a float kept as its exact decimal expansion (sign,
\* integer digits without leading zeros, fraction digits without trailing
\* zeros)
NumNone == [t |-> "none", neg |-> FALSE, int |-> <<>>, frac |-> <<>>]
NumOf(neg, int, frac) == [t |-> "num", neg |-> neg, int |-> int, frac |-> frac]

\* the worked examples of normalize_number
NumberExamples ==
    {
      [raw |-> <<"2", "7", ".", "3", "8", "0", ".", "9", "7", "3", ",", "4", "6">>,
       want |-> NumOf(FALSE, <<"2", "7", "3", "8", "0", "9", "7", "3">>, <<"4", "6">>)],
      [raw |-> <<"$", " ", "6", "4", "2", ".", "5", "1", "5", ",", "4", "1">>,
       want |-> NumOf(FALSE, <<"6", "4", "2", "5", "1", "5">>, <<"4", "1">>)],
      [raw |-> <<"$", " ", "-">>, want |-> NumNone],
      [raw |-> <<"-">>, want |-> NumNone],
      [raw |-> <<"0", ",", "0", "0">>,
       want |-> NumOf(FALSE, <<>>, <<>>)],
      [raw |-> <<"9", ".", "3", "7", "1", ",", "0", "4">>,
       want |-> NumOf(FALSE, <<"9", "3", "7", "1">>, <<"0", "4">>)],
      [raw |-> <<>>, want |-> NumNone],
      [raw |-> <<"5", "0", "0", ".", "1", "0", "6", ",", "7", "5">>,
       want |-> NumOf(FALSE, <<"5", "0", "0", "1", "0", "6">>, <<"7", "5">>)] }

\* the character U+2014
EmDash == "emdash"

NumChars == {"0", "1", ".", ",", "-", "$", " ", EmDash}

RawTexts ==
    UNION {[1..k -> NumChars] : k \in 0..MaxStrLen} \cup {e.raw : e \in NumberExamples}

\* str.replace(c, "")
RemoveChar(x, c) == SelectSeq(x, LAMBDA ch : ch # c)

\* str.replace(a, b) for single characters
ReplaceChar(x, a, b) == [i \in 1..Len(x) |-> IF x[i] = a THEN b ELSE x[i]]

\* str.lstrip(c)
RECURSIVE LStripChar(_, _)
LStripChar(x, c) == IF x # <<>> /\ Head(x) = c THEN LStripChar(Tail(x), c) ELSE x

RECURSIVE DropLeadingZeros(_)
DropLeadingZeros(x) ==
    IF x # <<>> /\ Head(x) = "0" THEN DropLeadingZeros(Tail(x)) ELSE x

RECURSIVE DropTrailingZeros(_)
DropTrailingZeros(x) ==
    IF x # <<>> /\ x[Len(x)] = "0" THEN DropTrailingZeros(SubSeq(x, 1, Len(x) - 1)) ELSE x

\* float(text) on text made of the modelled characters: digits with at most
\* one ".", at least one digit; anything else raises ValueError
PyFloat(x) ==
    LET dots == {i \in 1..Len(x) : x[i] = "."}
        k == IF dots = {} THEN Len(x) + 1 ELSE Min(dots)
    IN  IF /\ \A i \in 1..Len(x) : IsDigit(x[i]) \/ x[i] = "."
           /\ Cardinality(dots) <= 1
           /\ \E i \in 1..Len(x) : IsDigit(x[i])
        THEN [ok |-> TRUE,
              int |-> DropLeadingZeros(SubSeq(x, 1, k - 1)),
              frac |-> DropTrailingZeros(SubSeq(x, k + 1, Len(x)))]
        ELSE [ok |-> FALSE, int |-> <<>>, frac |-> <<>>]

\* mutant: the comma becomes the decimal point but the dots stay
ArgentineToDotKeepDots(cleaned) == ReplaceChar(cleaned, ",", ".")

\* the branch of a text with a comma: thousands dots removed, comma to dot
ArgentineToDot(cleaned) == ReplaceChar(RemoveChar(cleaned, "."), ",", ".")

\* the branch of a text without a comma: dots are thousands separators when
\* every group after the first has three characters
ThousandsHeuristic(cleaned) ==
    LET parts == SplitOn(cleaned, ".")
    IN  IF Len(parts) > 1 /\ \A i \in 2..Len(parts) : Len(parts[i]) = 3
        THEN RemoveChar(cleaned, ".")
        ELSE cleaned

normalize_number(raw) ==
    IF raw = <<>> THEN NumNone
    ELSE LET c1 == RemoveChar(Strip(raw), " ")
         IN  IF c1 \in {<<>>, <<"-">>, <<"$", "-">>, <<"$">>, <<EmDash>>} THEN NumNone
             ELSE LET c2 == Strip(LStripChar(c1, "$"))
                  IN  IF c2 \in {<<>>, <<"-">>, <<EmDash>>} THEN NumNone
                      ELSE LET negative == Head(c2) = "-"
                               c3 == Strip(LStripChar(c2, "-"))
                               c4 == IF \E i \in 1..Len(c3) : c3[i] = ","
                                     THEN ArgentineToDot(c3)
                                     ELSE ThousandsHeuristic(c3)
                               f == PyFloat(c4)
                           IN  IF f.ok THEN NumOf(negative, f.int, f.frac) ELSE NumNone

InitNumberVars ==
    \E raw \in RawTexts : nn = [pc |-> "call", raw |-> raw, out |-> NumNone]

NormalizeNumber ==
    /\ nn.pc = "call"
    /\ nn' = [nn EXCEPT !.pc = "done", !.out = normalize_number(nn.raw)]

\* what is left of the text once the spaces and one leading "$" are removed
Unadorned(raw) ==
    LET x == RemoveChar(raw, " ")
    IN  IF x # <<>> /\ Head(x) = "$" THEN Tail(x) ELSE x

HasComma(raw) == \E i \in 1..Len(raw) : raw[i] = ","

\* the amount an Argentine text with a comma denotes: dots deleted, the comma
\* read as the decimal point, an optional leading "-"; ok = FALSE when what
\* remains is not digits around one comma
ArgentineReading(raw) ==
    LET y == Unadorned(raw)
        neg == y # <<>> /\ Head(y) = "-"
        w == RemoveChar(IF neg THEN Tail(y) ELSE y, ".")
        commas == {i \in 1..Len(w) : w[i] = ","}
        k == IF commas = {} THEN 0 ELSE Min(commas)
    IN  IF /\ Cardinality(commas) = 1
           /\ \A i \in 1..Len(w) : i # k => IsDigit(w[i])
           /\ Len(w) > 1
        THEN [ok |-> TRUE, neg |-> neg,
              int |-> DropLeadingZeros(SubSeq(w, 1, k - 1)),
              frac |-> DropTrailingZeros(SubSeq(w, k + 1, Len(w)))]
        ELSE [ok |-> FALSE, neg |-> FALSE, int |-> <<>>, frac |-> <<>>]

\* equality of floats: same digits, and same sign unless both are zero
NumEq(a, b) ==
    /\ a.int = b.int
    /\ a.frac = b.frac
    /\ a.neg = b.neg \/ (a.int = <<>> /\ a.frac = <<>>)

\* C18: normalize_number keeps absent apart from zero and parses Argentine
\* amounts exactly: a text that without spaces and leading "$" is empty or a
\* lone dash gives None; "0,00" gives 0.0; a text with a comma gives the number
\* read with the dots deleted and the comma as decimal point, negated after a
\* leading "-"; the eight worked examples hold
C18_NormalizeNumber ==
    nn.pc = "done" =>
        /\ Unadorned(nn.raw) \in {<<>>, <<"-">>, <<EmDash>>} => nn.out.t = "none"
        /\ nn.raw = <<"0", ",", "0", "0">> =>
              (nn.out.t = "num" /\ nn.out.int = <<>> /\ nn.out.frac = <<>>)
        /\ (HasComma(nn.raw) /\ ArgentineReading(nn.raw).ok) =>
              (nn.out.t = "num" /\ NumEq(nn.out, ArgentineReading(nn.raw)))
        /\ \A e \in NumberExamples :
              nn.raw = e.raw => (nn.out.t = e.want.t /\ NumEq(nn.out, e.want))

\* a negative amount with a thousands dot and a comma has been parsed
C18_Witness ==
    /\ nn.pc = "done"
    /\ HasComma(nn.raw)
    /\ \E i \in 1..Len(nn.raw) : nn.raw[i] = "."
    /\ ArgentineReading(nn.raw).ok
    /\ nn.out.t = "num"
    /\ nn.out.neg
    /\ nn.out.int # <<>>

(***************************************************************************)
(* Specification of normalize_number                                       *)
(***************************************************************************)
InitNumber ==
    /\ sys = "number"
    /\ InitNumberVars
    /\ IdleExcelVars /\ IdleConsolVars /\ IdleNormVars /\ IdleOrchVars
    /\ IdleApi /\ IdlePipeline /\ IdleParsers /\ IdleOrchB /\ IdleBorrador
    /\ IdleFVars

NextNumber ==
    /\ NormalizeNumber
    /\ UNCHANGED <<sys, xvars, cvars, nvars, ovars, api, pp, pr, orchb, bdoc, fvars>>

SpecNumber == InitNumber /\ [][NextNumber]_vars

(***************************************************************************)
(* Orchestrator B (run_orchestrator_b.py)                                  *)
(***************************************************************************)
MaxConsolidated == 2

REQUIRED_KEYS == <<"schema_version", "periodo_iso", "canonical">>
RequiredKeySet == {REQUIRED_KEYS[i] : i \in 1..Len(REQUIRED_KEYS)}

\* consolidated_*.json files: the index stands for the name, in sorted order
ConsolidatedName(i) == <<"consolidated", i>>

\* top-level keys a consolidated file may carry
KeySets == {RequiredKeySet} \cup {RequiredKeySet \ {k} : k \in {"canonical", "periodo_iso"}}

\* other files of the output folder: two intermediate JSON and a workbook
OtherFiles == {<<"json", 1>>, <<"json", 2>>, <<"xlsx", 1>>}

\* file.endswith(".json")
IsJson(name) == name[1] \in {"consolidated", "json"}

\* a folder: file name -> top-level keys of its content
FolderOf(cons, others) ==
    [name \in {ConsolidatedName(i) : i \in DOMAIN cons} \cup others |->
        IF name[1] = "consolidated" THEN cons[name[2]] ELSE {}]

OutputFolders ==
    {FolderOf(cons, others) :
        cons \in UNION {[I -> KeySets] : I \in SUBSET (1..MaxConsolidated)},
        others \in SUBSET OtherFiles}

ArchiveFolders ==
    {FolderOf(cons, {}) : cons \in {<<>>, [i \in {1} |-> RequiredKeySet]}}

\* get_consolidated_files: sorted(glob("consolidated_*.json"))
get_consolidated_files(folder) ==
    LET idx == {name[2] : name \in {n \in DOMAIN folder : n[1] = "consolidated"}}
    IN  SortedPaths(idx)

\* validate_consolidated: raises ValueError for the first missing key
validate_consolidated(keys) ==
    IF \E i \in 1..Len(REQUIRED_KEYS) : REQUIRED_KEYS[i] \notin keys
    THEN "raise" ELSE "ok"

InitOrchBVars ==
    \E exists \in BOOLEAN, out \in OutputFolders, arch \in ArchiveFolders :
        /\ (~exists) => (out = FolderOf(<<>>, {}) /\ arch = FolderOf(<<>>, {}))
        /\ orchb = [pc |-> "scan", exists |-> exists, output |-> out, archive |-> arch,
                    output0 |-> out, archive0 |-> arch,
                    todo |-> <<>>, validated |-> {}, exit |-> "notrun",
                    outcome |-> "running"]

\* main up to the listing of the consolidated files
OBScan ==
    /\ orchb.pc = "scan"
    /\ LET consolidated_files == get_consolidated_files(orchb.output)
       IN  IF ~orchb.exists \/ consolidated_files = <<>>
           THEN orchb' = [orchb EXCEPT !.pc = "done", !.outcome = "nothing"]
           ELSE orchb' = [orchb EXCEPT !.pc = "validate", !.todo = consolidated_files]

\* one iteration of the validation loop; past the last file, the loop ends
OBValidate ==
    /\ orchb.pc = "validate"
    /\ IF orchb.todo = <<>>
       THEN orchb' = [orchb EXCEPT !.pc = "excel"]
       ELSE LET name == ConsolidatedName(Head(orchb.todo))
            IN  IF validate_consolidated(orchb.output[name]) = "raise"
                THEN orchb' = [orchb EXCEPT !.pc = "done", !.outcome = "ValueError"]
                ELSE orchb' = [orchb EXCEPT !.todo = Tail(@),
                                            !.validated = @ \cup {name}]

\* mutant: subprocess.run without check=True
OBRunBatchExcelUnchecked(code) ==
    /\ orchb.pc = "excel"
    /\ orchb' = [orchb EXCEPT !.pc = "archive", !.exit = code]

\* run_batch_excel: the subprocess leaves the JSON files alone; a non-zero
\* exit code raises CalledProcessError
OBRunBatchExcel(code) ==
    /\ orchb.pc = "excel"
    /\ IF code = "nonzero"
       THEN orchb' = [orchb EXCEPT !.pc = "done", !.exit = code,
                                   !.outcome = "CalledProcessError"]
       ELSE orchb' = [orchb EXCEPT !.pc = "archive", !.exit = code]

\* archive_consolidated: every consolidated file of the output folder is
\* moved into the archive, replacing a file of the same name
OBArchive ==
    /\ orchb.pc = "archive"
    /\ LET moved == {ConsolidatedName(get_consolidated_files(orchb.output)[i]) :
                        i \in 1..Len(get_consolidated_files(orchb.output))}
       IN  orchb' = [orchb EXCEPT
                !.pc = "cleanup",
                !.archive = [name \in DOMAIN orchb.archive \cup moved |->
                                IF name \in moved THEN orchb.output[name]
                                ELSE orchb.archive[name]],
                !.output = [name \in DOMAIN orchb.output \ moved |-> orchb.output[name]]]

\* cleanup_intermediate_json: every remaining *.json of the output folder
\* is removed
OBCleanup ==
    /\ orchb.pc = "cleanup"
    /\ orchb' = [orchb EXCEPT
            !.pc = "done",
            !.outcome = "finished",
            !.output = [name \in {n \in DOMAIN orchb.output : ~IsJson(n)} |->
                            orchb.output[name]]]

\* the consolidated files the run found
FoundB == {n \in DOMAIN orchb.output0 : n[1] = "consolidated"}

\* C19: files are moved to the archive or deleted only once every
\* consolidated file has the three keys and the batch Excel subprocess has
\* exited with zero; a failed validation or a non-zero exit leaves both folders
\* as they were; after a successful run the output folder has no .json file
\* and the archive has every consolidated file that was found
C19_ArchiveAfterSuccess ==
    /\ [](/\ orchb.outcome \in {"ValueError", "CalledProcessError"} =>
                (orchb.output = orchb.output0 /\ orchb.archive = orchb.archive0)
          /\ (\/ \E n \in FoundB : ~(RequiredKeySet \subseteq orchb.output0[n])
              \/ orchb.exit = "nonzero") =>
                (orchb.output = orchb.output0 /\ orchb.archive = orchb.archive0)
          /\ orchb.outcome = "finished" =>
                /\ \A n \in DOMAIN orchb.output : ~IsJson(n)
                /\ \A n \in FoundB :
                      n \in DOMAIN orchb.archive /\ orchb.archive[n] = orchb.output0[n])
    /\ [][(orchb'.output # orchb.output \/ orchb'.archive # orchb.archive) =>
             /\ \A n \in FoundB : RequiredKeySet \subseteq orchb.output0[n]
             /\ orchb.validated = FoundB
             /\ orchb.exit = "zero"]_vars

\* a run found two consolidated files and an intermediate JSON, archived the
\* two and removed the third, keeping the workbook
C19_Witness ==
    /\ orchb.outcome = "finished"
    /\ Cardinality(FoundB) = 2
    /\ <<"json", 1>> \in DOMAIN orchb.output0
    /\ <<"xlsx", 1>> \in DOMAIN orchb.output
    /\ ConsolidatedName(1) \in DOMAIN orchb.archive0

(***************************************************************************)
(* Specification of Orchestrator B                                         *)
(***************************************************************************)
InitOrchB ==
    /\ sys = "orchB"
    /\ InitOrchBVars
    /\ IdleExcelVars /\ IdleConsolVars /\ IdleNormVars /\ IdleOrchVars
    /\ IdleApi /\ IdlePipeline /\ IdleParsers /\ IdleNumber /\ IdleBorrador
    /\ IdleFVars

NextOrchB ==
    /\ \/ OBScan
       \/ OBValidate
       \/ \E code \in {"zero", "nonzero"} : OBRunBatchExcel(code)
       \/ OBArchive
       \/ OBCleanup
    /\ UNCHANGED <<sys, xvars, cvars, nvars, ovars, api, pp, pr, nn, bdoc, fvars>>

SpecOrchB == InitOrchB /\ [][NextOrchB]_vars

(***************************************************************************)
(* Borrador: totales_generales from the parser to the normalizer           *)
(***************************************************************************)
Chars_total_general == <<"t", "o", "t", "a", "l", "_", "g", "e", "n", "e", "r", "a", "l">>
Chars_lrt == <<"l", "r", "t">>
Chars_vales == <<"v", "a", "l", "e", "s">>
Chars_extracted == <<"e", "x", "t", "r", "a", "c", "t", "e", "d">>
Chars_tablas == <<"t", "a", "b", "l", "a", "s">>
Chars_totales_generales ==
    <<"t", "o", "t", "a", "l", "e", "s", "_", "g", "e", "n", "e", "r", "a", "l", "e", "s">>
Chars_value == <<"v", "a", "l", "u", "e">>

\* the (field_name, categoria, excluir_de_normalizacion) rows of
\* _extract_totales_generales that the model keeps
TOTALES_PATTERNS ==
    << [field |-> Chars_lrt, categoria |-> "concepto_operativo", excluir |-> FALSE],
       [field |-> Chars_vales, categoria |-> "concepto_operativo", excluir |-> FALSE],
       [field |-> Chars_total_general, categoria |-> "total_global_no_operativo",
        excluir |-> TRUE] >>

\* amounts printed after a label: none found, a lone dash (value None), or
\* a figure
FoundAmounts == {"unmatched", "dash", "100", "250"}

AmountValue(a) ==
    CASE a = "100" -> Num(100) [] a = "250" -> Num(250) [] OTHER -> None

\* _extract_totales_generales: one entry per pattern found in the text, in
\* the order of the patterns
RECURSIVE TotalesFrom(_, _)
TotalesFrom(found, i) ==
    IF i > Len(TOTALES_PATTERNS) THEN <<>>
    ELSE LET pat == TOTALES_PATTERNS[i]
             entry == [key |-> pat.field, value |-> AmountValue(found[i]),
                       label |-> pat.field, categoria |-> pat.categoria,
                       excluir_de_normalizacion |-> pat.excluir]
         IN  (IF found[i] = "unmatched" THEN <<>> ELSE <<entry>>)
             \o TotalesFrom(found, i + 1)

extract_totales_generales(found) == TotalesFrom(found, 1)

\* build_json_path of string parts: the parts joined with "."
RECURSIVE build_json_path(_)
build_json_path(parts) ==
    IF Len(parts) = 0 THEN <<>>
    ELSE IF Len(parts) = 1 THEN parts[1]
    ELSE build_json_path(SubSeq(parts, 1, Len(parts) - 1)) \o <<".">> \o parts[Len(parts)]

\* BaseIndexer._make_item: no item unless the value is a number
make_item(json_path, label, value, attributes) ==
    IF value.t # "num" THEN <<>>
    ELSE << [json_path |-> json_path, label |-> Some(label), codigo |-> Nothing,
             value |-> value, attributes |-> attributes] >>

\* BorradorIndexer._index_items, loop over tablas.totales_generales
RECURSIVE IndexTotales(_, _)
IndexTotales(totales, i) ==
    IF i > Len(totales) THEN <<>>
    ELSE LET concepto == totales[i]
         IN  make_item(build_json_path(<<Chars_extracted, Chars_tablas,
                                         Chars_totales_generales, concepto.key,
                                         Chars_value>>),
                       concepto.label, concepto.value,
                       [tipo_concepto |-> concepto.categoria,
                        seccion |-> "totales_generales"])
             \o IndexTotales(totales, i + 1)

\* BaseIndexer.index: the items of _index_items, first of each json_path
index_borrador(parser_json) ==
    LET raw_items == IndexTotales(parser_json.totales_generales, 1)
        items == SelectSeq([i \in 1..Len(raw_items) |->
                               [at |-> i, item |-> raw_items[i]]],
                           LAMBDA e : \A j \in 1..(e.at - 1) :
                               raw_items[j].json_path # e.item.json_path)
    IN  [source |-> "borrador", items |-> [i \in 1..Len(items) |-> items[i].item]]

\* "extracted.tablas.totales_generales.total_general"
TotalGeneralPath ==
    Chars_extracted \o <<".">> \o Chars_tablas \o <<".">> \o Chars_totales_generales
        \o <<".">> \o Chars_total_general

\* matcher lists of a dictionary concept for the borrador source
BorradorMatcherLists ==
    { <<Matcher(TypeEquals, Chars_total_general, {}, FALSE)>>,
      <<Matcher(TypeJsonPath, TotalGeneralPath \o <<".">> \o Chars_value, {}, TRUE)>>,
      <<Matcher(TypeEquals, Chars_lrt, {}, TRUE)>>,
      <<Matcher(TypeEquals, Chars_total_general,
                {<<"tipo_concepto", "concepto_operativo">>}, TRUE)>>,
      <<Matcher(TypeRegexRaw, <<"l">>, {<<"seccion", "totales_generales">>}, TRUE)>> }

BorradorDictionaries ==
    { << ConceptDef("contribuciones_total", ob, [borrador |-> ml]) >> :
        ob \in BOOLEAN, ml \in BorradorMatcherLists }

InitBorradorVars ==
    /\ \E found \in [1..Len(TOTALES_PATTERNS) -> FoundAmounts] :
          bdoc = [pc |-> "parsed",
                  totales_generales |-> extract_totales_generales(found)]
    /\ nitems = <<>>
    /\ ndict \in BorradorDictionaries
    /\ nres = NoRes

\* BorradorIndexer().index(parser_json)
IndexBorrador ==
    /\ bdoc.pc = "parsed"
    /\ bdoc' = [bdoc EXCEPT !.pc = "indexed"]
    /\ nitems' = index_borrador(bdoc)
    /\ UNCHANGED <<ndict, nres>>

\* normalize(indexed, dictionary) of the borrador source
NormalizeBorrador ==
    /\ bdoc.pc = "indexed"
    /\ bdoc' = [bdoc EXCEPT !.pc = "normalized"]
    /\ nres' = normalize_source("core", "borrador", nitems, ndict)
    /\ UNCHANGED <<nitems, ndict>>

\* the path is the prefix or continues it with a further part
IsUnder(path, prefix) ==
    /\ Len(path) >= Len(prefix)
    /\ SubSeq(path, 1, Len(prefix)) = prefix
    /\ Len(path) > Len(prefix) => path[Len(prefix) + 1] = "."

\* C20: the total_general entry, tagged total_global_no_operativo and
\* excluir_de_normalizacion by the parser, is never an operand: whatever the
\* dictionary, no canonical concept of a normalized Borrador has its evidence
\* at extracted.tablas.totales_generales.total_general
C20_TotalGeneralExcluded ==
    /\ \A i \in 1..Len(bdoc.totales_generales) :
          bdoc.totales_generales[i].key = Chars_total_general =>
              /\ bdoc.totales_generales[i].categoria = "total_global_no_operativo"
              /\ bdoc.totales_generales[i].excluir_de_normalizacion
    /\ bdoc.pc = "normalized" =>
          \A k \in DOMAIN nres.conceptos :
              ~IsUnder(nres.conceptos[k].json_path, TotalGeneralPath)

(***************************************************************************)
(* Specification of the Borrador indexing and normalization                *)
(***************************************************************************)
InitBorrador ==
    /\ sys = "borrador"
    /\ InitBorradorVars
    /\ IdleExcelVars /\ IdleConsolVars /\ IdleOrchVars
    /\ IdleApi /\ IdlePipeline /\ IdleParsers /\ IdleNumber /\ IdleOrchB
    /\ IdleFVars

NextBorrador ==
    /\ \/ IndexBorrador
       \/ NormalizeBorrador
    /\ UNCHANGED <<sys, xvars, cvars, ovars, api, pp, pr, nn, orchb, fvars>>

SpecBorrador == InitBorrador /\ [][NextBorrador]_vars

(***************************************************************************)
(* Further claims about the normalizer                                     *)
(***************************************************************************)
SupportedTypes ==
    { <<"e", "q", "u", "a", "l", "s">>, <<"r", "e", "g", "e", "x">>,
      <<"c", "o", "d", "i", "g", "o">>, <<"j", "s", "o", "n", "_", "p", "a", "t", "h">> }

\* some matcher the dictionary declares for the normalizer's source has a
\* type outside the supported ones
HasUnsupportedMatcher ==
    \E c \in 1..Len(ndict) :
        \E j \in 1..Len(MatchersFor(ndict[c], NormalizerSource)) :
            Strip(Lower(MatchersFor(ndict[c], NormalizerSource)[j].type)) \notin SupportedTypes

\* C21: a dictionary with a matcher of unrecognized type for the source makes
\* normalize raise, whatever the items and the matcher's attributes_filter
\* are; it never completes
C21_UnknownTypeFailsFast ==
    (nres # NoRes /\ HasUnsupportedMatcher) => nres.raised

(***************************************************************************)
(* Further claims about the consolidators                                  *)
(***************************************************************************)
\* text of the form MM/YYYY: one or two digits, "/", four digits
IsMonthSlashYear(x) ==
    LET k == FirstSlash(x)
    IN  /\ k \in {2, 3}
        /\ Len(x) = k + 4
        /\ \A i \in 1..Len(x) : i # k => IsDigit(x[i])

\* the period the raw metadata of one source yields, <<>> if none
RawPeriodOf(md) ==
    IF Strip(md.periodo_iso) # <<>> THEN Strip(md.periodo_iso)
    ELSE IF IsMonthSlashYear(md.periodo_detectado)
    THEN LET k == FirstSlash(md.periodo_detectado)
         IN  SubSeq(md.periodo_detectado, k + 1, k + 4) \o <<"-">>
             \o ZFill2(SubSeq(md.periodo_detectado, 1, k - 1))
    ELSE <<>>

\* sources of ClaimedOrder, by position, that are among the inputs
PresentAt(i) == ModelsOf(ClaimedOrder[i]) # {}
SourceAt(i) == csources[Max(ModelsOf(ClaimedOrder[i]))]

ClaimedPeriod ==
    LET raws == {i \in 1..Len(ClaimedOrder) :
                    PresentAt(i) /\ RawPeriodOf(SourceAt(i).metadata) # <<>>}
        canons == {i \in 1..Len(ClaimedOrder) :
                    PresentAt(i) /\ SourceAt(i).periodo # <<>>}
    IN  IF raws # {} THEN RawPeriodOf(SourceAt(Min(raws)).metadata)
        ELSE IF canons # {} THEN SourceAt(Min(canons)).periodo
        ELSE <<>>

\* C22: the period ConsolidatorV2 resolves is, in the order f931, borrador,
\* asiento, the first raw periodo_iso that is not blank or, for that source,
\* a raw periodo_detectado of the form MM/YYYY turned into YYYY-MM; a
\* periodo_detectado of another form is passed over; without any raw period
\* it is the first non-empty periodo of a canonical model, else empty
C22_PeriodResolution ==
    (cres # NoRes /\ cres.version = "2.0.0") => cres.canonical.periodo = ClaimedPeriod

(***************************************************************************)
(* Order of the period writes of build_year                                *)
(*                                                                         *)
(* build_year writes the files in sorted order on one open workbook.  The  *)
(* batch below holds two consolidated files; it is written on a copy of    *)
(* the template once in each order.  The period of a file is its           *)
(* periodo_iso: files of two years may share a month.                      *)
(***************************************************************************)
OrderPeriods == Periods \cup {(Min(Years) - 1) * 100 + 1}

\* the loop of build_year over the files of seq: the workbook that is saved,
\* or ok = FALSE (and nothing saved) when a period raised
RECURSIVE BuildYearLoop(_, _, _)
BuildYearLoop(w, template, seq) ==
    IF seq = <<>> THEN [ok |-> TRUE, wb |-> w]
    ELSE LET r == WritePeriod(w, template, Head(seq))
         IN  IF r.ok THEN BuildYearLoop(r.wb, template, Tail(seq))
             ELSE [ok |-> FALSE, wb |-> NoFile]

InitOrderVars ==
    \E t \in Templates, b1 \in BaseDocs, b2 \in BaseDocs,
       p1 \in OrderPeriods, p2 \in OrderPeriods, vary \in BOOLEAN :
        /\ p1 < p2
        /\ ord = [pc |-> "ready", template |-> t,
                  a |-> CloneFor(b1, p1, vary), b |-> CloneFor(b2, p2, vary),
                  ab |-> NoRes, ba |-> NoRes]

\* the batch written in the order a, b and in the order b, a
WriteBothOrders ==
    /\ ord.pc = "ready"
    /\ ord' = [ord EXCEPT !.pc = "done",
                          !.ab = BuildYearLoop(ord.template, ord.template, <<ord.a, ord.b>>),
                          !.ba = BuildYearLoop(ord.template, ord.template, <<ord.b, ord.a>>)]

OrderDone == ord # Off /\ ord.pc = "done"
DistinctMonths == MonthOf(ord.a.periodo_iso) # MonthOf(ord.b.periodo_iso)

\* C23 (as stated): whatever the files of the batch, writing them in either
\* order leaves every cell of the workbook with the same value
C23_OrderIndependent == OrderDone => ord.ab = ord.ba

\* C23 (amended): when the files of the batch belong to distinct months,
\* writing them in either order leaves every cell of the workbook with the
\* same value (and a run that raises in one order raises in the other)
C23_OrderIndependentDistinctMonths ==
    (OrderDone /\ DistinctMonths) => ord.ab = ord.ba

\* two files of distinct months with different figures, both written, each
\* changing the workbook
C23_Witness ==
    /\ OrderDone /\ DistinctMonths
    /\ ord.ab.ok
    /\ ord.a.fields # ord.b.fields
    /\ ord.ab.wb.s931 # ord.template.s931
    /\ ord.ab.wb.ag # ord.template.ag
    /\ WritePeriod(ord.template, ord.template, ord.a).wb # ord.ab.wb
    /\ WritePeriod(ord.template, ord.template, ord.b).wb # ord.ab.wb

InitOrder ==
    /\ sys = "order"
    /\ InitOrderVars
    /\ IdleExcelVars /\ IdleConsolVars /\ IdleNormVars /\ IdleOrchVars
    /\ IdleApi /\ IdlePipeline /\ IdleParsers /\ IdleNumber /\ IdleOrchB /\ IdleBorrador
    /\ IdleCli /\ IdleAsientoMeta /\ IdleConcurrent /\ IdleOrchBExcel /\ IdleResolve

NextOrder ==
    /\ WriteBothOrders
    /\ UNCHANGED <<sys, xvars, cvars, nvars, ovars, evars, cli, am, cc, obx, agr>>

SpecOrder == InitOrder /\ [][NextOrder]_vars

(***************************************************************************)
(* Further claims about the core build_year                                *)
(***************************************************************************)
CoreRunning == xpc = "writing" /\ xmode = "core"

\* the files of the run written so far, in sorted order
WrittenSoFar == SubSeq(SortedPaths(runSet), 1, Len(wlog))

\* C24: in a build_year run the workbook is opened once (every later state
\* of the in-memory workbook comes from the period writes, never from a new
\* load), the file on disk changes only by the one save that ends the run
\* after the writes of every period, and a run that ends with an exception
\* leaves the file on disk as it was
C24_SingleOpenSingleSave ==
    [][CoreRunning =>
          /\ (xpc' = "writing" =>
                  /\ queue # <<>>
                  /\ wb' = WritePeriod(wb, tpl, files[Head(queue)]).wb
                  /\ disk' = disk)
          /\ (xpc' = "idle" /\ xerr' = "ok" =>
                  /\ queue = <<>>
                  /\ Len(wlog) = Cardinality(runSet)
                  /\ disk' = wb)
          /\ (xpc' = "idle" /\ xerr' = "error" => disk' = disk)
          /\ (xpc' = "idle" => xerr' \in {"ok", "error"} /\ wb' = NoFile)]_vars

\* a build_year run which has written a period on the workbook in memory,
\* so that it differs from the file on disk, and is about to raise on the
\* next period
C24_Witness ==
    /\ CoreRunning
    /\ wlog # <<>>
    /\ wb # disk
    /\ queue # <<>>
    /\ ~ WritePeriod(wb, tpl, files[Head(queue)]).ok

(***************************************************************************)
(* run_batch_excel.py: the per-period Excel command line                   *)
(*                                                                         *)
(* A file name of the output directory is a record: the text before the    *)
(* period part, the period part, and the extension.  A workbook file is    *)
(* the set of period parts written into it.                                *)
(***************************************************************************)
MaxCliFiles == 2

Stem_2025_01 == <<"2", "0", "2", "5", "-", "0", "1">>
Stem_2025_02 == <<"2", "0", "2", "5", "-", "0", "2">>
Stem_2025_1 == <<"2", "0", "2", "5", "-", "1">>
Stem_fake == <<"f", "a", "k", "e">>

CliNames ==
    [prefix : {"consolidated_", "indexed_"},
     stem : {Stem_2025_01, Stem_2025_02, Stem_2025_1, Stem_fake},
     ext : {".json", ".txt"}]

\* CONSOLIDATED_RE = ^consolidated_(\d{4}-\d{2})\.json$
IsStrictPeriod(stem) ==
    /\ Len(stem) = 7
    /\ stem[5] = "-"
    /\ \A i \in {1, 2, 3, 4, 6, 7} : IsDigit(stem[i])

MatchesConsolidatedRe(name) ==
    name.prefix = "consolidated_" /\ IsStrictPeriod(name.stem) /\ name.ext = ".json"

\* lexicographic order of two period strings of the same length
RECURSIVE StemLess(_, _)
StemLess(x, y) ==
    IF x = <<>> \/ y = <<>> THEN x = <<>> /\ y # <<>>
    ELSE IF Head(x) = Head(y) THEN StemLess(Tail(x), Tail(y))
    ELSE DigitValue(Head(x)) < DigitValue(Head(y))

RECURSIVE SortByPeriod(_)
SortByPeriod(S) ==
    IF S = {} THEN <<>>
    ELSE LET first == CHOOSE n \in S : \A m \in S : m = n \/ StemLess(n.stem, m.stem)
         IN  <<first>> \o SortByPeriod(S \ {first})

\* find_consolidated_files: the matching names, sorted by the captured period
find_consolidated_files(folder) ==
    SortByPeriod({n \in folder : MatchesConsolidatedRe(n)})

\* the public and private methods class ExcelLoader defines
ExcelLoaderMethods ==
    {"build_from_template", "update_existing", "_process_workbook", "_write_931",
     "_write_analisis_general", "_detect_analisis_column"}

\* loader.update_excel(output_path = path): attribute lookup, then the
\* save of the workbook, which fails when the file is open elsewhere
UpdateExcelCall(path, lockedPaths) ==
    IF "update_excel" \notin ExcelLoaderMethods THEN "AttributeError"
    ELSE IF path \in lockedPaths THEN "PermissionError"
    ELSE "ok"

\* what data["periodo_iso"] holds in the files of the run
JsonPeriodKinds == {"as_named", "absent"}

CliDirs == {D \in SUBSET CliNames : Cardinality(D) <= MaxCliFiles}

InitCliVars ==
    \E D \in CliDirs, te \in BOOLEAN, lk \in BOOLEAN, jk \in JsonPeriodKinds :
        cli = [pc |-> "find", dir |-> D, json |-> jk,
               targetExists |-> te, locked |-> IF lk THEN {"target"} ELSE {},
               todo |-> <<>>, found |-> <<>>,
               target_excel_path |-> "target", written_periods |-> 0,
               target |-> {}, fallback |-> NoFile,
               exit |-> "running", reported |-> -1]

\* main, up to the loop: find the files, then check that the workbook exists
CliFind ==
    /\ cli.pc = "find"
    /\ LET consolidated == find_consolidated_files(cli.dir)
       IN  IF consolidated = <<>> \/ ~ cli.targetExists
           THEN cli' = [cli EXCEPT !.pc = "done", !.found = consolidated, !.exit = "0"]
           ELSE cli' = [cli EXCEPT !.pc = "loop", !.found = consolidated,
                                   !.todo = consolidated]

\* the content of the workbook at `path` after one period is written in it
CliWritten(c, path, stem) ==
    IF path = "target" THEN [c EXCEPT !.target = c.target \cup {stem}]
    ELSE [c EXCEPT !.fallback = c.fallback \cup {stem}]

\* one iteration of the loop of main; after the last one, the summary
CliPeriod ==
    /\ cli.pc = "loop"
    /\ cli.todo # <<>>
    /\ LET stem == Head(cli.todo).stem
           last == Len(cli.todo) = 1
           end(c) == IF last
                     THEN [c EXCEPT !.pc = "done", !.exit = "0", !.todo = <<>>,
                                    !.reported = c.written_periods]
                     ELSE [c EXCEPT !.todo = Tail(c.todo)]
           first == UpdateExcelCall(cli.target_excel_path, cli.locked)
       IN  IF cli.json = "absent"
           THEN \* ExcelLoader.__init__ raises ValueError
                cli' = [cli EXCEPT !.pc = "done", !.exit = "ValueError"]
           ELSE IF first = "ok"
           THEN cli' = end([CliWritten(cli, cli.target_excel_path, stem)
                               EXCEPT !.written_periods = cli.written_periods + 1])
           ELSE IF first = "PermissionError"
           THEN LET copied == IF cli.fallback = NoFile
                              THEN [cli EXCEPT !.fallback =
                                       IF cli.target_excel_path = "target"
                                       THEN cli.target ELSE cli.fallback]
                              ELSE cli
                    moved == [copied EXCEPT !.target_excel_path = "fallback"]
                    second == UpdateExcelCall("fallback", cli.locked)
                IN  IF second = "ok"
                    THEN cli' = end([CliWritten(moved, "fallback", stem)
                                        EXCEPT !.written_periods = cli.written_periods + 1])
                    ELSE cli' = [moved EXCEPT !.pc = "done", !.exit = second]
           ELSE cli' = [cli EXCEPT !.pc = "done", !.exit = first]

CliEnteredLoop == cli.pc = "done" /\ cli.found # <<>> /\ cli.targetExists
CliFoundStems == {cli.found[i].stem : i \in 1..Len(cli.found)}

\* C25: a run whose target workbook is open elsewhere ends normally, having
\* copied the target to the fallback and written every period of the run
\* into the fallback and none into the target, and reports as many periods
\* as the run has
C25_PermissionFallback ==
    (cli # Off /\ CliEnteredLoop /\ cli.locked # {} /\ cli.json = "as_named") =>
        /\ cli.exit = "0"
        /\ cli.fallback = CliFoundStems
        /\ cli.target = {}
        /\ cli.reported = Len(cli.found)

InitCli ==
    /\ sys = "cli"
    /\ InitCliVars
    /\ IdleExcelVars /\ IdleConsolVars /\ IdleNormVars /\ IdleOrchVars
    /\ IdleApi /\ IdlePipeline /\ IdleParsers /\ IdleNumber /\ IdleOrchB /\ IdleBorrador
    /\ IdleOrder /\ IdleAsientoMeta /\ IdleConcurrent /\ IdleOrchBExcel /\ IdleResolve

NextCli ==
    /\ CliFind \/ CliPeriod
    /\ UNCHANGED <<sys, xvars, cvars, nvars, ovars, evars, ord, am, cc, obx, agr>>

SpecCli == InitCli /\ [][NextCli]_vars

(***************************************************************************)
(* Further claims about Orchestrator A                                     *)
(***************************************************************************)
\* C26: once run() has returned, no per-period scratch directory remains
\* for any bundle of the run, whether its pipeline ended OK or raised and
\* left the bundle BLOCKED
C26_ScratchRemoved ==
    opc = "done" => \A k \in 1..Len(bundles) : bundles[k].periodo \notin tmpdirs

(***************************************************************************)
(* AsientoParser: _extract_metadata, the period of the document            *)
(*                                                                         *)
(* A text line is a record: the words it starts with, the characters       *)
(* that follow them up to the next word, and the rest of the line.  A file *)
(* name is the character sequence of its stem.                             *)
(***************************************************************************)
MaxLines == 2

IsDigitAt(x, i) == i >= 1 /\ i <= Len(x) /\ IsDigit(x[i])
IsCharAt(x, i, S) == i >= 1 /\ i <= Len(x) /\ x[i] \in S

\* length of the greedy \d{2,4} that starts at position i (0: no match)
YearLen(x, i) ==
    IF ~ (IsDigitAt(x, i) /\ IsDigitAt(x, i + 1)) THEN 0
    ELSE IF ~ IsDigitAt(x, i + 2) THEN 2
    ELSE IF ~ IsDigitAt(x, i + 3) THEN 3
    ELSE 4

\* [_\-](\d{2})[_\-](\d{2,4}) matched at position i of the stem
FilenameSepMatchAt(name, i) ==
    /\ IsCharAt(name, i, {"_", "-"})
    /\ IsDigitAt(name, i + 1) /\ IsDigitAt(name, i + 2)
    /\ IsCharAt(name, i + 3, {"_", "-"})
    /\ YearLen(name, i + 4) > 0

\* extract_periodo_from_filename: "MM/YYYY" or Nothing
extract_periodo_from_filename(name) ==
    LET hits == {i \in 1..Len(name) : FilenameSepMatchAt(name, i)}
        n == Len(name)
    IN  IF hits # {}
        THEN LET i == Min(hits)
                 mes == SubSeq(name, i + 1, i + 2)
                 anio == SubSeq(name, i + 4, i + 3 + YearLen(name, i + 4))
             IN  Some(mes \o <<"/">> \o (IF Len(anio) = 2 THEN <<"2", "0">> \o anio ELSE anio))
        ELSE IF n >= 6 /\ \A k \in (n - 5)..n : IsDigit(name[k])
        THEN Some(SubSeq(name, n - 5, n - 4) \o <<"/">> \o SubSeq(name, n - 3, n))
        ELSE Nothing

\* ASIENTO CONTABLE AL[:\s]+(\d{2}[-/]\d{2}[-/]\d{2,4}), case-insensitive:
\* the three parts of the date, or <<>> when the line does not match
AsientoDateParts(line) ==
    LET x == line.rest
    IN  IF /\ line.words \in {"ASIENTO CONTABLE AL", "asiento contable al"}
           /\ line.sep # <<>>
           /\ \A k \in 1..Len(line.sep) : line.sep[k] \in {":", " "}
           /\ IsDigitAt(x, 1) /\ IsDigitAt(x, 2) /\ IsCharAt(x, 3, {"-", "/"})
           /\ IsDigitAt(x, 4) /\ IsDigitAt(x, 5) /\ IsCharAt(x, 6, {"-", "/"})
           /\ YearLen(x, 7) > 0
        THEN <<SubSeq(x, 1, 2), SubSeq(x, 4, 5), SubSeq(x, 7, 6 + YearLen(x, 7))>>
        ELSE <<>>

\* MM/YYYY of the date of a matching line
PeriodOfParts(parts) ==
    parts[2] \o <<"/">> \o (IF Len(parts[3]) = 4 THEN parts[3] ELSE <<"2", "0">> \o parts[3])

\* the loop over the lines of _extract_metadata
RECURSIVE MetadataFrom(_, _, _)
MetadataFrom(lines, i, meta) ==
    IF i > Len(lines) THEN meta
    ELSE LET parts == AsientoDateParts(lines[i])
         IN  IF parts = <<>> THEN MetadataFrom(lines, i + 1, meta)
             ELSE MetadataFrom(lines, i + 1,
                     [periodo_detectado |->
                          IF meta.periodo_detectado # Nothing THEN meta.periodo_detectado
                          ELSE Some(PeriodOfParts(parts)),
                      fecha_emision |->
                          Some(parts[1] \o <<lines[i].rest[3]>> \o parts[2]
                               \o <<lines[i].rest[6]>> \o parts[3])])

extract_metadata(lines, name) ==
    MetadataFrom(lines, 1, [periodo_detectado |-> extract_periodo_from_filename(name),
                            fecha_emision |-> Nothing])

AsientoLines ==
    { [words |-> "ASIENTO CONTABLE AL", sep |-> <<":", " ">>,
       rest |-> <<"3", "0", "-", "0", "5", "-", "2", "5">>],
      [words |-> "asiento contable al", sep |-> <<" ">>,
       rest |-> <<"3", "0", "/", "0", "6", "/", "2", "0", "2", "5">>],
      [words |-> "ASIENTO CONTABLE AL", sep |-> <<":">>,
       rest |-> <<"3", "0", "-", "0", "5", "-", "2">>],
      [words |-> "ASIENTO CONTABLE AL", sep |-> <<>>,
       rest |-> <<"3", "0", "-", "0", "5", "-", "2", "5">>],
      [words |-> "SUELDOS Y JORNALES", sep |-> <<" ">>,
       rest |-> <<"3", "0", "-", "0", "5", "-", "2", "5">>],
      [words |-> "DEBE", sep |-> <<" ">>, rest |-> <<"H", "A", "B", "E", "R">>] }

AsientoStems ==
    { <<"a", "s", "i", "e", "n", "t", "o">>,
      <<"a", "s", "i", "e", "n", "t", "o", "_", "0", "5", "-", "2", "5">>,
      <<"a", "s", "i", "e", "n", "t", "o", "_", "0", "4", "_", "2", "0", "2", "5">>,
      <<"a", "s", "i", "e", "n", "t", "o", " ", "0", "5", "2", "0", "2", "5">>,
      <<"a", "s", "i", "e", "n", "t", "o", "_", "2", "0", "2", "5", "-", "0", "5">>,
      <<"l", "o", "t", "e", "-", "1", "2", "-", "3", "4", "5", "6">> }

SeqsUpTo(S, n) == UNION {[1..k -> S] : k \in 0..n}

InitAsientoMetaVars ==
    \E lines \in SeqsUpTo(AsientoLines, MaxLines), name \in AsientoStems :
        am = [pc |-> "ready", lines |-> lines, name |-> name, meta |-> NoRes]

ExtractMetadata ==
    /\ am.pc = "ready"
    /\ am' = [am EXCEPT !.pc = "done", !.meta = extract_metadata(am.lines, am.name)]

AsientoDateLines == {k \in 1..Len(am.lines) : AsientoDateParts(am.lines[k]) # <<>>}

\* C27: when the text has an 'ASIENTO CONTABLE AL: DD-MM-YY' line,
\* periodo_detectado is the MM/YYYY period of that date; otherwise it is what
\* the file name heuristic gives
C27_PeriodFromText ==
    (am # Off /\ am.pc = "done") =>
        am.meta.periodo_detectado =
            IF AsientoDateLines # {}
            THEN Some(PeriodOfParts(AsientoDateParts(am.lines[Min(AsientoDateLines)])))
            ELSE extract_periodo_from_filename(am.name)

InitAsientoMeta ==
    /\ sys = "asientometa"
    /\ InitAsientoMetaVars
    /\ IdleExcelVars /\ IdleConsolVars /\ IdleNormVars /\ IdleOrchVars
    /\ IdleApi /\ IdlePipeline /\ IdleParsers /\ IdleNumber /\ IdleOrchB /\ IdleBorrador
    /\ IdleOrder /\ IdleCli /\ IdleConcurrent /\ IdleOrchBExcel /\ IdleResolve

NextAsientoMeta ==
    /\ ExtractMetadata
    /\ UNCHANGED <<sys, xvars, cvars, nvars, ovars, evars, ord, cli, cc, obx, agr>>

SpecAsientoMeta == InitAsientoMeta /\ [][NextAsientoMeta]_vars

(***************************************************************************)
(* ExcelMapper.resolve_analisis_value on its own: a row number, the text   *)
(* of column B, and a consolidated document                                *)
(***************************************************************************)
ResolveRows == {8, 9}

ResolveLabels ==
    { <<"R", "E", "M">>,
      <<" ", "F", "á", "C", " ", "(", "x", ")">>,
      <<"o", "t", "r", "o", "s", " ", "F", "A", "C">>,
      <<"O", "t", "r", "o", "s">>,
      <<"I", "V", "A">>,
      << >> }

InitResolveVars ==
    \E base \in BaseDocs, row \in ResolveRows, text \in ResolveLabels, p \in Periods :
        agr = [pc |-> "ready", doc |-> CloneFor(base, p, FALSE), row_num |-> row,
               concepto_text |-> text, value |-> NoRes]

ResolveAnalisisValue ==
    /\ agr.pc = "ready"
    /\ agr' = [agr EXCEPT !.pc = "done",
                          !.value = resolve_analisis_value(agr.doc, agr.row_num,
                                                           agr.concepto_text)]

\* the dynamic keys contained in the normalized label, and the items whose
\* normalized label contains a pattern of dynamic key k
KeysIn(text) ==
    {k \in 1..Len(MappingDynamic) :
        Contains(normalize(MappingDynamic[k].key), normalize(text))}

ItemsMatching(doc, k) ==
    {j \in 1..Len(doc.conceptos_dinamicos) :
        \E q \in 1..Len(MappingDynamic[k].match_any) :
            Contains(MappingDynamic[k].match_any[q],
                     normalize(doc.conceptos_dinamicos[j].normalized_label))}

RECURSIVE SumValues(_, _)
SumValues(items, J) ==
    IF J = {} THEN 0
    ELSE LET j == CHOOSE x \in J : TRUE IN items[j].value + SumValues(items, J \ {j})

StructuredEntryOf(row) == {i \in 1..Len(MappingAnalisis) : MappingAnalisis[i].row = row}

\* C28: with a structured entry for the row the result is that entry's
\* resolved value, absent included; otherwise the first dynamic key (in
\* declaration order) contained in the normalized label decides, and the
\* result is the sum of the values of the items whose normalized label
\* contains one of its patterns, each item once, or absent when no item
\* matches or no key is contained
C28_TwoPhaseResolution ==
    (agr # Off /\ agr.pc = "done") =>
        agr.value =
            IF StructuredEntryOf(agr.row_num) # {}
            THEN ResolveEntry(agr.doc, MappingAnalisis[Max(StructuredEntryOf(agr.row_num))])
            ELSE IF KeysIn(agr.concepto_text) = {} THEN None
            ELSE LET J == ItemsMatching(agr.doc, Min(KeysIn(agr.concepto_text)))
                 IN  IF J = {} THEN None
                     ELSE Num(SumValues(agr.doc.conceptos_dinamicos, J))

\* a row without structured entry whose label contains both dynamic keys,
\* and a document with an item that contains two patterns of the first key:
\* the result is the sum with that item counted once
C28_Witness ==
    /\ agr # Off /\ agr.pc = "done"
    /\ StructuredEntryOf(agr.row_num) = {}
    /\ Cardinality(KeysIn(agr.concepto_text)) = 2
    /\ \E j \in ItemsMatching(agr.doc, 1) :
          Cardinality({q \in 1..Len(MappingDynamic[1].match_any) :
              Contains(MappingDynamic[1].match_any[q],
                       normalize(agr.doc.conceptos_dinamicos[j].normalized_label))}) = 2
    /\ agr.value = Num(7)

\* a row with a structured entry that resolves to absent while its label
\* contains a dynamic key with matching items: the result is absent
C28_WitnessStructuredAbsent ==
    /\ agr # Off /\ agr.pc = "done"
    /\ StructuredEntryOf(agr.row_num) # {}
    /\ KeysIn(agr.concepto_text) # {}
    /\ ItemsMatching(agr.doc, Min(KeysIn(agr.concepto_text))) # {}
    /\ agr.value = None

InitResolve ==
    /\ sys = "resolve"
    /\ InitResolveVars
    /\ IdleExcelVars /\ IdleConsolVars /\ IdleNormVars /\ IdleOrchVars
    /\ IdleApi /\ IdlePipeline /\ IdleParsers /\ IdleNumber /\ IdleOrchB /\ IdleBorrador
    /\ IdleOrder /\ IdleCli /\ IdleAsientoMeta /\ IdleConcurrent /\ IdleOrchBExcel

NextResolve ==
    /\ ResolveAnalisisValue
    /\ UNCHANGED <<sys, xvars, cvars, nvars, ovars, evars, ord, cli, am, cc, obx>>

SpecResolve == InitResolve /\ [][NextResolve]_vars

(***************************************************************************)
(* Two overlapping calls of process_period with the same period and the    *)
(* same output directory.  The calls share consolidated_{period}.json and  *)
(* Px_Laboral_{period}.xlsx; everything else of a call is in its memory.   *)
(***************************************************************************)
Calls == {1, 2}
OtherCall(i) == 3 - i

\* the PDFs of a call: none, or one document
CallPdfLists == {<<>>} \cup {<<pdf>> : pdf \in PdfInputs}

Truncated == [truncated |-> TRUE]
Garbled == [garbled |-> TRUE]

InitConcurrentVars ==
    \E pdfs \in [Calls -> CallPdfLists] :
        cc = [period |-> IsoMay,
              call |-> [i \in Calls |-> [pc |-> "parse", pdfs |-> pdfs[i],
                                         consolidated |-> NoRes, outcome |-> "running"]],
              json |-> NoFile,
              xlsx |-> NoFile]

\* steps 1 to 3 of call i, in its memory: parse, normalize, consolidate
CCConsolidate(i) ==
    /\ cc.call[i].pc = "parse"
    /\ LET parsed == run_parsers(cc.call[i].pdfs)
       IN  IF parsed = <<>>
           THEN cc' = [cc EXCEPT !.call[i].pc = "raised",
                                 !.call[i].outcome = "ValueError"]
           ELSE cc' = [cc EXCEPT !.call[i].pc = "open",
                                 !.call[i].consolidated =
                                     run_consolidation(run_normalizers(parsed))]

\* open(consolidated_json_path, "w"): the file is created or truncated
CCOpenJson(i) ==
    /\ cc.call[i].pc = "open"
    /\ cc' = [cc EXCEPT !.call[i].pc = "dump", !.json = Truncated]

\* json.dump and close: the call writes its document from offset 0; when
\* the other call wrote a different document after this call truncated the
\* file, the result is this call's document or, when that is the shorter
\* one, its text followed by the tail of the other
CCDumpJson(i) ==
    /\ cc.call[i].pc = "dump"
    /\ \E content \in IF cc.json \in {Truncated, Garbled}
                           \/ cc.json.data = cc.call[i].consolidated
                        THEN {[writer |-> i, data |-> cc.call[i].consolidated]}
                        ELSE {[writer |-> i, data |-> cc.call[i].consolidated], Garbled} :
           cc' = [cc EXCEPT !.call[i].pc = "excel", !.json = content]

\* step 4 of call i: _run_excel on the consolidated document in memory,
\* then return excel_path
CCExcel(i) ==
    /\ cc.call[i].pc = "excel"
    /\ LET lp == LoaderPeriod(cc.call[i].consolidated.periodo_iso)
       IN  IF ~ lp.ok
           THEN cc' = [cc EXCEPT !.call[i].pc = "raised",
                                 !.call[i].outcome = "ValueError"]
           ELSE cc' = [cc EXCEPT !.call[i].pc = "returned",
                                 !.call[i].outcome = "returned",
                                 !.xlsx = [writer |-> i, year |-> lp.year,
                                           month |-> lp.month]]

BothReturned == cc # Off /\ \A i \in Calls : cc.call[i].pc = "returned"

\* C29: when two overlapping calls with the same period and output
\* directory have returned, each has returned an existing spreadsheet and
\* the consolidated JSON of the period is the document built from its own
\* PDFs
C29_NoInterference ==
    BothReturned =>
        \A i \in Calls :
            /\ cc.xlsx # NoFile
            /\ cc.json = [writer |-> i, data |-> cc.call[i].consolidated]
               \/ cc.json = [writer |-> OtherCall(i), data |-> cc.call[i].consolidated]

InitConcurrent ==
    /\ sys = "concurrent"
    /\ InitConcurrentVars
    /\ IdleExcelVars /\ IdleConsolVars /\ IdleNormVars /\ IdleOrchVars
    /\ IdleApi /\ IdlePipeline /\ IdleParsers /\ IdleNumber /\ IdleOrchB /\ IdleBorrador
    /\ IdleOrder /\ IdleCli /\ IdleAsientoMeta /\ IdleOrchBExcel /\ IdleResolve

NextConcurrent ==
    /\ \E i \in Calls : CCConsolidate(i) \/ CCOpenJson(i) \/ CCDumpJson(i) \/ CCExcel(i)
    /\ UNCHANGED <<sys, xvars, cvars, nvars, ovars, evars, ord, cli, am, obx, agr>>

SpecConcurrent == InitConcurrent /\ [][NextConcurrent]_vars

(***************************************************************************)
(* Orchestrator B and the Excel stage it launches, on one output folder.   *)
(* The folder is a set of file names; the consolidated files all carry the *)
(* three required keys, or one of them lacks a key.                        *)
(***************************************************************************)
\* glob("consolidated_*.json")
GlobConsolidated(folder) ==
    {n \in folder : n.prefix = "consolidated_" /\ n.ext = ".json"}

\* run_batch_excel.py as a subprocess: its exit code and the periods it
\* wrote into the workbook
BatchExcelMain(folder, targetExists) ==
    LET consolidated == find_consolidated_files(folder)
    IN  IF consolidated = <<>> \/ ~ targetExists
        THEN [exit |-> "zero", loaded |-> {}]
        ELSE IF UpdateExcelCall("target", {}) = "ok"
        THEN [exit |-> "zero",
              loaded |-> {consolidated[i].stem : i \in 1..Len(consolidated)}]
        ELSE [exit |-> "nonzero", loaded |-> {}]

InitOrchBExcelVars ==
    \E D \in CliDirs, te \in BOOLEAN, valid \in BOOLEAN :
        obx = [pc |-> "scan", output |-> D, output0 |-> D, archive |-> {},
               targetExists |-> te, valid |-> valid,
               exit |-> "notrun", loaded |-> {}, outcome |-> "running"]

\* main up to the end of the validation loop
OXScanValidate ==
    /\ obx.pc = "scan"
    /\ IF GlobConsolidated(obx.output) = {}
       THEN obx' = [obx EXCEPT !.pc = "done", !.outcome = "nothing"]
       ELSE IF ~ obx.valid
       THEN obx' = [obx EXCEPT !.pc = "done", !.outcome = "ValueError"]
       ELSE obx' = [obx EXCEPT !.pc = "excel"]

\* run_batch_excel: subprocess.run(..., check=True)
OXRunBatchExcel ==
    /\ obx.pc = "excel"
    /\ LET r == BatchExcelMain(obx.output, obx.targetExists)
       IN  IF r.exit = "nonzero"
           THEN obx' = [obx EXCEPT !.pc = "done", !.exit = r.exit,
                                   !.outcome = "CalledProcessError"]
           ELSE obx' = [obx EXCEPT !.pc = "archive", !.exit = r.exit,
                                   !.loaded = r.loaded]

\* archive_consolidated
OXArchive ==
    /\ obx.pc = "archive"
    /\ obx' = [obx EXCEPT !.pc = "cleanup",
                          !.archive = @ \cup GlobConsolidated(obx.output),
                          !.output = @ \ GlobConsolidated(obx.output)]

\* cleanup_intermediate_json
OXCleanup ==
    /\ obx.pc = "cleanup"
    /\ obx' = [obx EXCEPT !.pc = "done", !.outcome = "finished",
                          !.output = {n \in @ : n.ext # ".json"}]

\* C30: a consolidated file leaves the output folder only if the Excel
\* stage loaded its period into the workbook; when the stage wrote nothing,
\* every consolidated file is still in the output folder
C30_ArchiveOnlyLoaded ==
    obx # Off =>
        \A n \in GlobConsolidated(obx.output0) :
            n \notin obx.output => n.stem \in obx.loaded

InitOrchBExcel ==
    /\ sys = "orchBExcel"
    /\ InitOrchBExcelVars
    /\ IdleExcelVars /\ IdleConsolVars /\ IdleNormVars /\ IdleOrchVars
    /\ IdleApi /\ IdlePipeline /\ IdleParsers /\ IdleNumber /\ IdleOrchB /\ IdleBorrador
    /\ IdleOrder /\ IdleCli /\ IdleAsientoMeta /\ IdleConcurrent /\ IdleResolve

NextOrchBExcel ==
    /\ OXScanValidate \/ OXRunBatchExcel \/ OXArchive \/ OXCleanup
    /\ UNCHANGED <<sys, xvars, cvars, nvars, ovars, evars, ord, cli, am, cc, agr>>

SpecOrchBExcel == InitOrchBExcel /\ [][NextOrchBExcel]_vars

====
